---------------------------- MODULE Spec2Model ----------------------------
(***************************************************************************)
(* Verification model of the krx-feed aggregation core:                    *)
(*   - update_history.py : snapshot row building and the history ledger    *)
(*     upsert with its write-to-temp-then-rename discipline,               *)
(*   - pipeline.py       : the steps of one batch run (main),              *)
(*   - src/reconcile.py  : reconcile_rows,                                 *)
(*   - src/utils.py      : ensure_schema and its callers.                  *)
(*                                                                         *)
(* Numbers are fixed-point integers in hundredths (2500.00 -> 250000).     *)
(* Text that the code orders or compares (the time_kst key) is a sequence  *)
(* of character codes, so that string order is lexicographic order.        *)
(***************************************************************************)
EXTENDS Integers, Sequences, FiniteSets, TLC

VARIABLES
    fs,        \* files by path: the ledger (history.csv) and its .tmp sibling
    pc,        \* position of the current pipeline run inside main()
    phase,     \* --phase argument of the current run
    frame,     \* history_frame held in memory by upsert_from_latest
    wrote,     \* number of rows to_csv has written so far into its target
    row,       \* the snapshot row built by the current upsert
    pre,       \* the ledger file as it was when the current run started
    exitcode,  \* value returned by main(), -1 while running
    raised,    \* stage of main() in which the current run raised, "" if none
    runs,      \* number of runs started so far
    rc,        \* reconcile_rows: [existing, new_rows, out] of the last call
    sv,        \* schema validation: [record, via, result] of the last call
    call       \* the last call of one of the other functions: its arguments and result

ledgerVars == <<fs, pc, phase, frame, wrote, row, pre, exitcode, raised, runs>>
vars == <<fs, pc, phase, frame, wrote, row, pre, exitcode, raised, runs, rc, sv, call>>

-----------------------------------------------------------------------------
(* Bounds of the model *)

\* days per month that occur in the model (dates are 2024-MM-01 .. 2024-MM-MaxDay)
MaxDay == 1
\* records per latest.csv batch handed to one upsert
MaxBatch == 2
\* records in the new batch handed to reconcile_rows
MaxNew == 2
\* records in the previous batch handed to reconcile_rows
MaxExisting == 2
\* rows handed to one sanitize_rows or _load_existing call
MaxRows == 2
\* pipeline runs per behaviour
MaxRuns == 2
\* retention horizon the ledger is checked against (rows)
RetentionHorizon == 1

Months == {2, 12}
Dates == {<<2024, m, d>> : m \in Months, d \in 1..MaxDay}

-----------------------------------------------------------------------------
(* Text helpers: character codes and lexicographic order *)

Digit(n) == 48 + n
Pad2(n) == <<Digit(n \div 10), Digit(n % 10)>>
Pad4(n) == <<Digit(n \div 1000), Digit((n \div 100) % 10), Digit((n \div 10) % 10), Digit(n % 10)>>

\* str(datetime.date): ISO "YYYY-MM-DD"
DateStr(d) == Pad4(d[1]) \o <<45>> \o Pad2(d[2]) \o <<45>> \o Pad2(d[3])

\* "15:30:00"
EOD_TIME_STR == <<49, 53, 58, 51, 48, 58, 48, 48>>

\* f"{target_date} {EOD_TIME_STR}"
TimeKst(d) == DateStr(d) \o <<32>> \o EOD_TIME_STR

RECURSIVE StrLess(_, _)
\* Python's str < str
StrLess(a, b) ==
    IF b = <<>> THEN FALSE
    ELSE IF a = <<>> THEN TRUE
    ELSE IF Head(a) # Head(b) THEN Head(a) < Head(b)
    ELSE StrLess(Tail(a), Tail(b))

StrLeq(a, b) == a = b \/ StrLess(a, b)

\* chronological order of calendar dates
DateLess(d, e) ==
    \/ d[1] < e[1]
    \/ d[1] = e[1] /\ d[2] < e[2]
    \/ d[1] = e[1] /\ d[2] = e[2] /\ d[3] < e[3]

-----------------------------------------------------------------------------
(* update_history.py: constants *)

HISTORY_COLUMNS ==
    << "time_kst", "kospi", "kosdaq", "kospi_adv", "kospi_dec", "kospi_unch",
       "kosdaq_adv", "kosdaq_dec", "kosdaq_unch", "usdkrw", "dxy", "ust2y",
       "ust10y", "kr3y", "kr10y", "tips10y", "wti", "brent", "gold", "copper",
       "btc", "k200_hv30", "src_tag", "quality" >>

ColumnSet == {HISTORY_COLUMNS[i] : i \in 1..Len(HISTORY_COLUMNS)}

\* (asset, key, column)
LATEST_TO_HISTORY ==
    { <<"KOSPI", "idx", "kospi">>, <<"KOSDAQ", "idx", "kosdaq">>,
      <<"KOSPI", "advance", "kospi_adv">>, <<"KOSPI", "decline", "kospi_dec">>,
      <<"KOSPI", "unchanged", "kospi_unch">>,
      <<"KOSDAQ", "advance", "kosdaq_adv">>, <<"KOSDAQ", "decline", "kosdaq_dec">>,
      <<"KOSDAQ", "unchanged", "kosdaq_unch">>,
      <<"USD/KRW", "spot", "usdkrw">>, <<"DXY", "idx", "dxy">>,
      <<"UST2Y", "yield", "ust2y">>, <<"UST10Y", "yield", "ust10y">>,
      <<"KR3Y", "yield", "kr3y">>, <<"KR10Y", "yield", "kr10y">>,
      <<"TIPS10Y", "yield", "tips10y">>, <<"WTI", "price", "wti">>,
      <<"Brent", "curve_M1", "brent">>, <<"Gold", "price", "gold">>,
      <<"Copper", "price", "copper">>, <<"BTC", "price", "btc">>,
      <<"KOSPI200", "hv30", "k200_hv30">> }

ValueColumns == {m[3] : m \in LATEST_TO_HISTORY}

\* no bound
NoBound == <<>>

\* column -> (minimum, maximum) in hundredths; <<>> is None
VALUE_VALIDATORS(column) ==
    CASE column \in {"kospi", "kosdaq"} -> << <<0>>, NoBound >>
      [] column \in {"ust2y", "ust10y", "kr3y", "kr10y", "tips10y"} -> << <<0>>, <<1000>> >>
      [] column = "dxy" -> << <<7000>>, <<13000>> >>
      [] OTHER -> << NoBound, NoBound >>

Abs(x) == IF x < 0 THEN -x ELSE x

\* numpy.isclose(a, b): |a - b| <= atol + rtol * |b| with rtol = 1e-5 and
\* atol = 1e-8; on hundredths this is |A - B| <= |B| / 100000
isclose(a, b) == Abs(a - b) <= Abs(b) \div 100000

validate_value(column, value) ==
    LET minimum == VALUE_VALIDATORS(column)[1]
        maximum == VALUE_VALIDATORS(column)[2]
    IN  IF minimum # NoBound /\ ~(value > minimum[1] \/ isclose(value, minimum[1]))
        THEN FALSE
        ELSE IF maximum # NoBound /\ ~(value < maximum[1] \/ isclose(value, maximum[1]))
        THEN FALSE
        ELSE TRUE


-----------------------------------------------------------------------------
(* update_history.py: the latest.csv frame and the snapshot row *)

\* A latest.csv row after _load_latest:
\*   ts      <<>> (NaT) or <<date, minutes since midnight>>
\*   value   <<"num", n>>, <<"nan">> (blank) or <<"text">> (not a number)
\*   source  the "|"-separated producer ids, <<>> when blank
\*   quality lower-case text, "" when blank
NaT == <<>>
NumV(n) == <<"num", n>>
NanV == <<"nan">>
TextV == <<"text">>

\* an absent latest.csv
NoFile == [exists |-> FALSE, rows |-> <<>>]
File(rows) == [exists |-> TRUE, rows |-> rows]

\* _load_latest: a missing file gives the empty frame; date_kst is the date of ts_kst
load_latest(latest) == IF latest.exists THEN latest.rows ELSE <<>>

date_kst(r) == IF r.ts = NaT THEN NaT ELSE r.ts[1]

Indices(f) == 1..Len(f)

\* max() of a non-empty set of dates
MaxDate(S) == CHOOSE d \in S : \A e \in S : e = d \/ DateLess(e, d)

\* _choose_target_date: <<>> is None
choose_target_date(f) ==
    LET working == {i \in Indices(f) : f[i].ts # NaT}
        eod_rows == {i \in working : f[i].window = "EOD"}
    IN  IF f = <<>> \/ working = {} THEN <<>>
        ELSE IF eod_rows # {} THEN <<MaxDate({date_kst(f[i]) : i \in eod_rows})>>
        ELSE <<MaxDate({date_kst(f[i]) : i \in working})>>

\* variant: the EOD records are not preferred
select_latest_record_any_window(f, asset, key, target_date, tie) ==
    LET subset == {i \in Indices(f) : f[i].asset = asset /\ f[i].key = key
                                      /\ date_kst(f[i]) = target_date}
        last == {i \in subset : \A j \in subset : f[j].ts[2] <= f[i].ts[2]}
    IN  IF subset = {} THEN 0
        ELSE IF tie = "last" THEN CHOOSE i \in last : \A j \in last : j <= i
        ELSE CHOOSE i \in last : \A j \in last : i <= j

\* _select_latest_record: index of the chosen record, 0 when there is none.
\* sort_values("ts_kst") is not a stable sort; of several candidates with the
\* same greatest ts_kst either end of the group may come last (tie).
select_latest_record(f, asset, key, target_date, tie) ==
    LET subset == {i \in Indices(f) : f[i].asset = asset /\ f[i].key = key
                                      /\ date_kst(f[i]) = target_date}
        eod == {i \in subset : f[i].window = "EOD"}
        candidates == IF eod # {} THEN eod ELSE subset
        last == {i \in candidates : \A j \in candidates : f[j].ts[2] <= f[i].ts[2]}
    IN  IF subset = {} THEN 0
        ELSE IF tie = "last" THEN CHOOSE i \in last : \A j \in last : j <= i
        ELSE CHOOSE i \in last : \A j \in last : i <= j

\* producer ids in sorted() order
Producers == <<"bok", "fred", "krx", "naver">>

\* str.lower() on the producer ids that occur
Lower(text) ==
    CASE text = "FRED" -> "fred"
      [] text = "KRX" -> "krx"
      [] OTHER -> text

Blank == <<>>

\* variant: a value outside the column's bounds is still written to the row
column_outcome_keeps_rejected(f, m, target_date, tie) ==
    LET i == select_latest_record(f, m[1], m[2], target_date, tie)
    IN  IF i = 0 THEN [cell |-> Blank, status |-> "missing", src |-> <<>>, q |-> ""]
        ELSE IF f[i].value[1] # "num"
        THEN [cell |-> Blank, status |-> "non_numeric", src |-> <<>>, q |-> ""]
        ELSE IF ~validate_value(m[3], f[i].value[2])
        THEN [cell |-> <<f[i].value[2]>>, status |-> "range_violation", src |-> <<>>, q |-> ""]
        ELSE [cell |-> <<f[i].value[2]>>,
              status |-> IF f[i].window = "EOD" THEN "ok_eod" ELSE "ok_any",
              src |-> f[i].source, q |-> f[i].quality]

\* variant: the row holds the value rounded down to a whole unit
column_outcome_rounded(f, m, target_date, tie) ==
    LET i == select_latest_record(f, m[1], m[2], target_date, tie)
    IN  IF i = 0 THEN [cell |-> Blank, status |-> "missing", src |-> <<>>, q |-> ""]
        ELSE IF f[i].value[1] # "num"
        THEN [cell |-> Blank, status |-> "non_numeric", src |-> <<>>, q |-> ""]
        ELSE IF ~validate_value(m[3], f[i].value[2])
        THEN [cell |-> Blank, status |-> "range_violation", src |-> <<>>, q |-> ""]
        ELSE [cell |-> <<(f[i].value[2] \div 100) * 100>>,
              status |-> IF f[i].window = "EOD" THEN "ok_eod" ELSE "ok_any",
              src |-> f[i].source, q |-> f[i].quality]

\* outcome of one (asset, key) -> column step of the loop in _build_history_row
column_outcome(f, m, target_date, tie) ==
    LET i == select_latest_record(f, m[1], m[2], target_date, tie)
    IN  IF i = 0 THEN [cell |-> Blank, status |-> "missing", src |-> <<>>, q |-> ""]
        ELSE IF f[i].value[1] # "num"
        THEN [cell |-> Blank, status |-> "non_numeric", src |-> <<>>, q |-> ""]
        ELSE IF ~validate_value(m[3], f[i].value[2])
        THEN [cell |-> Blank, status |-> "range_violation", src |-> <<>>, q |-> ""]
        ELSE [cell |-> <<f[i].value[2]>>,
              status |-> IF f[i].window = "EOD" THEN "ok_eod" ELSE "ok_any",
              src |-> f[i].source, q |-> f[i].quality]

MappingOf(column) == CHOOSE m \in LATEST_TO_HISTORY : m[3] = column

\* variant: one final record is enough for the row to be final
build_history_row_any_final(f, target_date, tie) ==
    LET out == [c \in ValueColumns |-> column_outcome(f, MappingOf(c), target_date, tie)]
        sources == {out[c].src : c \in {c \in ValueColumns : out[c].status \in {"ok_eod", "ok_any"}
                                                            /\ out[c].src # <<>>}}
        qualities == {out[c].q : c \in {c \in ValueColumns : out[c].status \in {"ok_eod", "ok_any"}
                                                             /\ out[c].q # ""}}
        tags == {Lower(s[1]) : s \in sources}
    IN  [row |-> [c \in ColumnSet |->
                    IF c = "time_kst" THEN TimeKst(target_date)
                    ELSE IF c = "src_tag" THEN SelectSeq(Producers, LAMBDA p : p \in tags)
                    ELSE IF c = "quality"
                    THEN IF \E q \in qualities : q = "final" THEN <<"final">>
                         ELSE IF qualities # {} THEN <<"secondary">>
                         ELSE Blank
                    ELSE out[c].cell],
         field_status |-> [c \in ValueColumns |-> out[c].status]]

\* _build_history_row: the row and debug.field_status
build_history_row(f, target_date, tie) ==
    LET out == [c \in ValueColumns |-> column_outcome(f, MappingOf(c), target_date, tie)]
        sources == {out[c].src : c \in {c \in ValueColumns : out[c].status \in {"ok_eod", "ok_any"}
                                                            /\ out[c].src # <<>>}}
        qualities == {out[c].q : c \in {c \in ValueColumns : out[c].status \in {"ok_eod", "ok_any"}
                                                             /\ out[c].q # ""}}
        tags == {Lower(s[1]) : s \in sources}
    IN  [row |-> [c \in ColumnSet |->
                    IF c = "time_kst" THEN TimeKst(target_date)
                    ELSE IF c = "src_tag" THEN SelectSeq(Producers, LAMBDA p : p \in tags)
                    ELSE IF c = "quality"
                    THEN IF qualities # {} /\ \A q \in qualities : q = "final" THEN <<"final">>
                         ELSE IF qualities # {} THEN <<"secondary">>
                         ELSE Blank
                    ELSE out[c].cell],
         field_status |-> [c \in ValueColumns |-> out[c].status]]

\* _build_empty_history_row
build_empty_history_row(target_date) ==
    [row |-> [c \in ColumnSet |-> IF c = "time_kst" THEN TimeKst(target_date) ELSE Blank],
     field_status |-> [c \in ColumnSet \ {"time_kst"} |-> "missing_latest"]]

-----------------------------------------------------------------------------
(* update_history.py: the ledger file and upsert_from_latest *)

HistoryPath == "history.csv"

\* variant: to_csv writes straight onto the ledger path
tmp_path_in_place(path) == path

\* path.with_suffix(path.suffix + ".tmp")
tmp_path(path) == IF path = "history.csv" THEN "history.csv.tmp" ELSE path

Paths == {HistoryPath, tmp_path(HistoryPath)}

\* _load_history: the rows of the ledger file, none when it does not exist
load_history(file) == IF file.exists THEN file.rows ELSE <<>>

RECURSIVE InsertSorted(_, _)
InsertSorted(r, s) ==
    IF s = <<>> THEN <<r>>
    ELSE IF StrLess(r["time_kst"], Head(s)["time_kst"]) THEN <<r>> \o s
    ELSE <<Head(s)>> \o InsertSorted(r, Tail(s))

RECURSIVE sort_values(_)
\* history_frame.sort_values("time_kst")
sort_values(s) == IF s = <<>> THEN <<>> ELSE InsertSorted(Head(s), sort_values(Tail(s)))

\* variant: the frame is rebuilt from the new row alone
upsert_frame_fresh(history_frame, new_row) ==
    sort_values(<<new_row>>)

\* variant: the rows with the new row's key are not dropped
upsert_frame_keep_old(history_frame, new_row) ==
    sort_values(history_frame \o <<new_row>>)

\* variant: blank cells of the new row are filled from the row it replaces
upsert_frame_merge(history_frame, new_row) ==
    LET kept == SelectSeq(history_frame, LAMBDA r : r["time_kst"] # new_row["time_kst"])
        old == SelectSeq(history_frame, LAMBDA r : r["time_kst"] = new_row["time_kst"])
        merged == IF old = <<>> THEN new_row
                  ELSE [c \in ColumnSet |-> IF new_row[c] = Blank THEN old[1][c] ELSE new_row[c]]
    IN  sort_values(kept \o <<merged>>)

\* variant: the concatenated frame is written without sorting
upsert_frame_unsorted(history_frame, new_row) ==
    LET kept == SelectSeq(history_frame, LAMBDA r : r["time_kst"] # new_row["time_kst"])
    IN  kept \o <<new_row>>

\* lines 397-407 of upsert_from_latest: drop the rows with the new row's key,
\* append the new row, sort by time_kst
upsert_frame(history_frame, new_row) ==
    LET kept == SelectSeq(history_frame, LAMBDA r : r["time_kst"] # new_row["time_kst"])
    IN  sort_values(kept \o <<new_row>>)

NoRow == <<>>

\* the latest.csv rows the model hands to an upsert; compute_records stamps
\* every record of a run with the run's ts_kst, so a batch carries one date
LedgerRecords(d) ==
    { [ts |-> <<d, 930>>, asset |-> "KOSPI", key |-> "idx", value |-> NumV(250000),
       window |-> "EOD", source |-> <<"krx">>, quality |-> "final"],
      [ts |-> <<d, 930>>, asset |-> "USD/KRW", key |-> "spot", value |-> NumV(132050),
       window |-> "EOD", source |-> <<"bok">>, quality |-> "secondary"] }

\* a batch whose only record has an unparseable ts_kst
UndatedBatch ==
    << [ts |-> NaT, asset |-> "KOSPI", key |-> "idx", value |-> NumV(250000),
        window |-> "EOD", source |-> <<"krx">>, quality |-> "final"] >>

SeqsUpTo(S, n) == UNION {[1..k -> S] : k \in 0..n}

LedgerLatest ==
    {NoFile, File(UndatedBatch)}
    \cup UNION {{File(b) : b \in SeqsUpTo(LedgerRecords(d), MaxBatch)} : d \in Dates}

\* the outcomes of the unstable sort that can differ for this frame
Ties(f) ==
    IF \E i, j \in Indices(f) : i # j /\ f[i].ts = f[j].ts /\ f[i].ts # NaT
                                /\ f[i].asset = f[j].asset /\ f[i].key = f[j].key
    THEN {"first", "last"}
    ELSE {"last"}

Ledger == fs[HistoryPath]

\* upsert_from_latest up to the call of _atomic_write (lines 369-407)
UpsertBuild ==
    /\ pc = "upsert"
    /\ \E latest \in LedgerLatest :
       \E now \in IF load_latest(latest) = <<>> THEN Dates ELSE {CHOOSE d \in Dates : TRUE} :
       \E tie \in Ties(load_latest(latest)) :
         LET latest_frame == load_latest(latest)
             target == choose_target_date(latest_frame)
             built == IF latest_frame = <<>> THEN build_empty_history_row(now)
                      ELSE build_history_row(latest_frame, target[1], tie)
         IN  IF latest_frame # <<>> /\ target = <<>>
             THEN \* no target date: return without touching the ledger
                  /\ pc' = "verify"
                  /\ UNCHANGED <<frame, row, wrote>>
             ELSE /\ row' = built.row
                  /\ frame' = upsert_frame(load_history(Ledger), built.row)
                  /\ wrote' = 0
                  /\ pc' = "to_csv"
    /\ UNCHANGED <<fs, phase, pre, exitcode, raised, runs, rc, sv, call>>

\* frame.to_csv(tmp_path): the file is created or truncated, then written row by row
ToCsvOpen ==
    /\ pc = "to_csv"
    /\ fs' = [fs EXCEPT ![tmp_path(HistoryPath)] = File(<<>>)]
    /\ pc' = "to_csv_rows"
    /\ UNCHANGED <<phase, frame, wrote, row, pre, exitcode, raised, runs, rc, sv, call>>

ToCsvRow ==
    /\ pc = "to_csv_rows"
    /\ wrote < Len(frame)
    /\ fs' = [fs EXCEPT ![tmp_path(HistoryPath)] = File(@.rows \o <<frame[wrote + 1]>>)]
    /\ wrote' = wrote + 1
    /\ UNCHANGED <<pc, phase, frame, row, pre, exitcode, raised, runs, rc, sv, call>>

ToCsvClose ==
    /\ pc = "to_csv_rows"
    /\ wrote = Len(frame)
    /\ pc' = "move"
    /\ UNCHANGED <<fs, phase, frame, wrote, row, pre, exitcode, raised, runs, rc, sv, call>>

\* shutil.move(tmp_path, path): one rename inside the ledger's directory
Move ==
    /\ pc = "move"
    /\ fs' = [p \in Paths |->
                IF p = HistoryPath THEN fs[tmp_path(HistoryPath)]
                ELSE IF p = tmp_path(HistoryPath) THEN NoFile
                ELSE fs[p]]
    /\ pc' = "verify"
    /\ UNCHANGED <<phase, frame, wrote, row, pre, exitcode, raised, runs, rc, sv, call>>

-----------------------------------------------------------------------------
(* pipeline.py: one run of main() *)

Phases == {"0730", "1700"}

\* the statements of the try block before the history upsert, in order:
\* collect_raw, compute_records (+ mark_eod), check_coverage,
\* write_latest/write_daily/cleanup_daily, reconcile (+ rewrite of the tables)
Stages == <<"collect", "compute", "coverage", "write_tables", "reconcile">>

StageSet == {Stages[i] : i \in 1..Len(Stages)}

UpsertStages == {"upsert", "to_csv", "to_csv_rows", "move"}

IndexOf(stage) == CHOOSE i \in 1..Len(Stages) : Stages[i] = stage

NoFrame == <<>>

\* main(): parse_args, load_yaml, append_log(start)
StartRun ==
    /\ pc \in {"idle", "done"}
    /\ runs < MaxRuns
    /\ \E ph \in Phases : phase' = ph
    /\ pc' = "collect"
    /\ pre' = Ledger
    /\ exitcode' = -1
    /\ raised' = ""
    /\ runs' = runs + 1
    /\ frame' = NoFrame
    /\ row' = NoRow
    /\ wrote' = 0
    /\ UNCHANGED <<fs, rc, sv, call>>

\* a statement before the upsert completes; none of them touches history.csv
StepOk ==
    /\ pc \in StageSet
    /\ LET i == IndexOf(pc)
       IN  IF i < Len(Stages) THEN pc' = Stages[i + 1]
           ELSE IF phase \in {"1700", "EOD"} THEN pc' = "upsert"
           ELSE /\ pc' = "done"
    /\ exitcode' = IF pc' = "done" THEN 0 ELSE exitcode
    /\ UNCHANGED <<fs, phase, frame, wrote, row, pre, raised, runs, rc, sv, call>>

\* variant: the handler still runs the history upsert before returning
on_exception_upsert(stage) == IF stage \in StageSet THEN "upsert" ELSE "done"

\* except Exception: append_log(failure); return 1 -- where main() continues
on_exception(stage) == "done"

\* an exception in the try block
Raise ==
    /\ pc \in StageSet \cup UpsertStages
    /\ raised' = pc
    /\ pc' = on_exception(pc)
    /\ exitcode' = 1
    /\ UNCHANGED <<fs, phase, frame, wrote, row, pre, runs, rc, sv, call>>

\* lines 217-242: history.csv must exist, else SystemExit(2); then return 0
Verify ==
    /\ pc = "verify"
    /\ pc' = "done"
    /\ exitcode' = IF Ledger.exists THEN 0 ELSE 2
    /\ UNCHANGED <<fs, phase, frame, wrote, row, pre, raised, runs, rc, sv, call>>

NoCall == <<>>

InitLedger ==
    /\ fs = [p \in Paths |-> NoFile]
    /\ pc = "idle"
    /\ phase = "1700"
    /\ frame = NoFrame
    /\ wrote = 0
    /\ row = NoRow
    /\ pre = NoFile
    /\ exitcode = -1
    /\ raised = ""
    /\ runs = 0
    /\ rc = NoCall
    /\ sv = NoCall
    /\ call = NoCall

NextLedger ==
    \/ StartRun
    \/ StepOk
    \/ Raise
    \/ UpsertBuild
    \/ ToCsvOpen
    \/ ToCsvRow
    \/ ToCsvClose
    \/ Move
    \/ Verify

SpecLedger == InitLedger /\ [][NextLedger]_vars

-----------------------------------------------------------------------------
(* Properties of the history ledger (SpecLedger) *)

LedgerRows == Ledger.rows

\* indices of the ledger rows that carry the key of the row just built
SameKey(rows) == {i \in 1..Len(rows) : rows[i]["time_kst"] = row["time_kst"]}

\* the upsert of the current run has replaced the ledger file
Upserted == pc = "verify" /\ row # NoRow

\* C1: the ledger never holds two rows with the same time_kst key, and right
\* after an upsert it holds exactly one row with the key of the snapshot just
\* built, equal to that snapshot (so of two upserts for one date the second wins).
C1_OneRowPerDate ==
    /\ \A i, j \in 1..Len(LedgerRows) :
         i # j => LedgerRows[i]["time_kst"] # LedgerRows[j]["time_kst"]
    /\ Upserted =>
         /\ Cardinality(SameKey(LedgerRows)) = 1
         /\ \A i \in SameKey(LedgerRows) : LedgerRows[i] = row

\* an upsert for a date that already had a different row
C1_Witness ==
    /\ Upserted
    /\ \E i \in SameKey(pre.rows) : pre.rows[i] # row

\* C2: the row for an existing date is replaced as a whole: every column of the
\* stored row is the new snapshot's column, so a column the old row had and the
\* new snapshot lacks is blank; for a new date the row count grows by one.
C2_ReplacedNotMerged ==
    Upserted =>
        /\ \A i \in SameKey(LedgerRows) : \A c \in ColumnSet :
             /\ LedgerRows[i][c] = row[c]
             /\ row[c] = Blank => LedgerRows[i][c] = Blank
        /\ SameKey(pre.rows) = {} =>
             /\ Len(LedgerRows) = Len(pre.rows) + 1
             /\ SameKey(LedgerRows) # {}
        /\ SameKey(pre.rows) # {} => Len(LedgerRows) = Len(pre.rows)

\* the replaced row had a column populated that the new snapshot leaves blank
C2_Witness ==
    /\ Upserted
    /\ \E i \in SameKey(pre.rows) : \E c \in ValueColumns :
         pre.rows[i][c] # Blank /\ row[c] = Blank

\* C3: at every instant the ledger path holds either the complete table of
\* before the run or the complete new table, also while to_csv is writing and
\* after it failed part-way.
C3_NeverPartialLedger ==
    \/ Ledger = pre
    \/ frame # NoFrame /\ Ledger = File(frame)

\* to_csv failed after writing some but not all rows of a table that replaces
\* an existing ledger
C3_Witness ==
    /\ raised = "to_csv_rows"
    /\ 0 < wrote /\ wrote < Len(frame)
    /\ Ledger.exists

\* C4: the ledger never holds more rows than the retention horizon.
C4_WithinRetention == Len(LedgerRows) <= RetentionHorizon

\* C5: the ledger rows are in ascending order of the time_kst key, which for
\* the keys the upsert writes is the order of the calendar dates.
C5_SortedByKey ==
    /\ \A i, j \in 1..Len(LedgerRows) :
         i < j => StrLeq(LedgerRows[i]["time_kst"], LedgerRows[j]["time_kst"])
    /\ \A d, e \in Dates : \A i, j \in 1..Len(LedgerRows) :
         (/\ LedgerRows[i]["time_kst"] = TimeKst(d)
          /\ LedgerRows[j]["time_kst"] = TimeKst(e)
          /\ DateLess(d, e)) => i < j

\* a date was upserted that is earlier than a date already in the ledger
C5_Witness ==
    /\ Upserted
    /\ SameKey(pre.rows) = {}
    /\ \E i \in 1..Len(pre.rows) : StrLess(row["time_kst"], pre.rows[i]["time_kst"])

\* C6: once a run has raised in a statement before the history upsert, the
\* ledger is what it was when the run started.
C6_AbortLeavesLedger == raised \in StageSet => Ledger = pre

\* a run of the 17:00 phase that aborted while writing the latest/daily tables,
\* with a ledger already in place
C6_Witness ==
    /\ pc = "done"
    /\ raised = "write_tables"
    /\ phase = "1700"
    /\ exitcode = 1
    /\ Ledger.exists

-----------------------------------------------------------------------------
(* src/reconcile.py: reconcile_rows *)

\* A record of a batch: value is None (<<>>) or <<n>>, notes is the text split
\* at ";" ("" is <<>>), ts is the "HH:MM" part of ts_kst as character codes.
None == <<>>

TsStr(h, m) == Pad2(h) \o <<58>> \o Pad2(m)

\* Thresholds defaults, in hundredths; an unknown category falls back to index
threshold_map(category) ==
    CASE category = "index" -> 30
      [] category = "rates" -> 1
      [] category = "fx" -> 5
      [] category = "commodity" -> 10
      [] category = "hv_corr" -> 1
      [] OTHER -> 30

\* keys whose lower-case text contains "corr", "hv" or "vol"
HvCorrKeys == {"hv30", "corr20"}

\* keys whose lower-case text contains "basis"
BasisKeys == {"basis"}

\* _asset_category; assets is the config's category list in file order
asset_category(asset, key, assets) ==
    LET hits == {i \in 1..Len(assets) : asset \in assets[i][2]}
    IN  IF hits # {} THEN assets[CHOOSE i \in hits : \A j \in hits : i <= j][1]
        ELSE IF key \in HvCorrKeys THEN "hv_corr"
        ELSE IF key \in BasisKeys THEN "commodity"
        ELSE "index"

\* compute.promote_final_quality: every record's quality becomes final
promote_final_quality(rows) ==
    [i \in 1..Len(rows) |-> [rows[i] EXCEPT !.quality = "final"]]

Slot(r) == <<r.asset, r.key, r.window>>

RECURSIVE latest_lookup(_, _, _)
\* the loop of lines 133-141 over the first n rows of existing: index of the
\* row kept for the slot, 0 when there is none
latest_lookup(existing, n, slot) ==
    IF n = 0 THEN 0
    ELSE LET current == latest_lookup(existing, n - 1, slot)
         IN  IF Slot(existing[n]) # slot THEN current
             ELSE IF current = 0 \/ StrLeq(existing[current].ts, existing[n].ts) THEN n
             ELSE current

\* variant: only a difference above the threshold counts
exceeds_strictly(diff, threshold) == diff > threshold

\* line 155: abs(new - old) >= threshold
exceeds(diff, threshold) == diff >= threshold

\* the body of the loop of lines 142-156 for one promoted row
revise(existing, r, assets) ==
    LET prev == latest_lookup(existing, Len(existing), Slot(r))
    IN  IF prev = 0 THEN r
        ELSE IF existing[prev].value = None \/ r.value = None THEN r
        ELSE IF exceeds(Abs(r.value[1] - existing[prev].value[1]),
                        threshold_map(asset_category(r.asset, r.key, assets)))
        THEN [r EXCEPT !.notes = <<"revised">>]
        ELSE r

\* variant: the first batch is returned as it came
reconcile_rows_first_unpromoted(existing, new_rows, assets) ==
    IF existing = <<>> THEN new_rows
    ELSE [i \in 1..Len(new_rows) |-> revise(existing, promote_final_quality(new_rows)[i], assets)]

reconcile_rows(existing, new_rows, assets) ==
    LET promoted == promote_final_quality(new_rows)
    IN  IF existing = <<>> THEN promoted
        ELSE [i \in 1..Len(promoted) |-> revise(existing, promoted[i], assets)]

\* the "assets" section of a configuration file, and no configuration file
ConfigAssets ==
    << <<"index", {"KOSPI", "KOSDAQ"}>>, <<"rates", {"UST2Y", "UST10Y", "KR3Y", "KR10Y"}>>,
       <<"fx", {"USD/KRW"}>>, <<"commodity", {"WTI", "Brent", "Gold", "Copper"}>> >>

Configs == {ConfigAssets, <<>>}

NewRecords ==
    { [asset |-> "KOSPI", key |-> "idx", window |-> "1D", ts |-> TsStr(17, 0),
       value |-> v, quality |-> "primary", notes |-> n]
        : v \in {<<250029>>, <<250030>>}, n \in {<<>>, <<"fallback:widget">>} }
    \cup
    { [asset |-> "KOSPI", key |-> "idx", window |-> "1D", ts |-> TsStr(17, 0),
       value |-> None, quality |-> "primary", notes |-> <<"range_violation">>],
      [asset |-> "UST2Y", key |-> "yield", window |-> "1D", ts |-> TsStr(17, 0),
       value |-> <<426>>, quality |-> "secondary", notes |-> <<>>] }

ExistingRecords ==
    { [asset |-> "KOSPI", key |-> "idx", window |-> "1D", ts |-> t,
       value |-> v, quality |-> "final", notes |-> <<>>]
        : t \in {TsStr(7, 30), TsStr(15, 30)}, v \in {None, <<250000>>} }
    \cup
    { [asset |-> "KOSPI", key |-> "idx", window |-> "EOD", ts |-> TsStr(15, 30),
       value |-> <<240000>>, quality |-> "final", notes |-> <<>>],
      [asset |-> "UST2Y", key |-> "yield", window |-> "1D", ts |-> TsStr(15, 30),
       value |-> <<425>>, quality |-> "final", notes |-> <<>>] }

InitReconcile ==
    /\ fs = [p \in Paths |-> NoFile]
    /\ pc = "idle"
    /\ phase = "1700"
    /\ frame = NoFrame
    /\ wrote = 0
    /\ row = NoRow
    /\ pre = NoFile
    /\ exitcode = -1
    /\ raised = ""
    /\ runs = 0
    /\ sv = NoCall
    /\ call = NoCall
    /\ \E e \in SeqsUpTo(ExistingRecords, MaxExisting), n \in SeqsUpTo(NewRecords, MaxNew),
          a \in Configs :
         rc = [existing |-> e, new_rows |-> n, assets |-> a, out |-> <<>>, done |-> FALSE]

ReconcileRows ==
    /\ ~rc.done
    /\ rc' = [rc EXCEPT !.out = reconcile_rows(rc.existing, rc.new_rows, rc.assets),
                        !.done = TRUE]
    /\ UNCHANGED <<fs, pc, phase, frame, wrote, row, pre, exitcode, raised, runs, sv, call>>

NextReconcile == ReconcileRows

SpecReconcile == InitReconcile /\ [][NextReconcile]_vars

-----------------------------------------------------------------------------
(* Properties of reconcile_rows (SpecReconcile) *)

Tagged(r) == \E k \in 1..Len(r.notes) : r.notes[k] = "revised"

\* the row of the previous batch that is latest for r's slot: no other row of
\* the slot has a later ts_kst, and of those with the same ts_kst it is the last
PrevOf(r) ==
    {p \in 1..Len(rc.existing) :
        /\ Slot(rc.existing[p]) = Slot(r)
        /\ \A q \in 1..Len(rc.existing) :
             Slot(rc.existing[q]) = Slot(r) =>
                \/ StrLess(rc.existing[q].ts, rc.existing[p].ts)
                \/ rc.existing[q].ts = rc.existing[p].ts /\ q <= p}

\* C7: every record reconcile_rows returns has quality final, one per record
\* of the new batch, whatever the previous batch holds.
C7_AllFinal ==
    rc.done =>
        /\ Len(rc.out) = Len(rc.new_rows)
        /\ \A i \in 1..Len(rc.out) : rc.out[i].quality = "final"

\* a first batch (no previous batch) with a record that was not final
C7_Witness ==
    /\ rc.done
    /\ rc.existing = <<>>
    /\ \E i \in 1..Len(rc.new_rows) : rc.new_rows[i].quality # "final"

C9_NotesKept ==
    rc.done =>
        \A i \in 1..Len(rc.out) : \A k \in 1..Len(rc.new_rows[i].notes) :
            \E l \in 1..Len(rc.out[i].notes) : rc.out[i].notes[l] = rc.new_rows[i].notes[k]

-----------------------------------------------------------------------------
(* src/utils.py: ensure_schema and the functions that validate through it *)

SCHEMA_COLUMNS ==
    << "ts_kst", "asset", "key", "value", "unit", "window", "change_abs",
       "change_pct", "source", "quality", "url", "notes" >>

SchemaColumnSet == {SCHEMA_COLUMNS[i] : i \in 1..Len(SCHEMA_COLUMNS)}

QUALITY_VALUES == {"primary", "secondary", "final"}

\* what dict.get gives for an absent column
PyNone == "<None>"

\* row.get(col)
Get(r, col) == IF col \in DOMAIN r THEN r[col] ELSE PyNone

Ok(rows) == [status |-> "ok", rows |-> rows]
ValueError == [status |-> "ValueError", rows |-> <<>>]

\* variant: an unknown quality is replaced by a known one instead of raising
ensure_schema_coerce(r) ==
    LET ordered == [col \in SchemaColumnSet |-> Get(r, col)]
    IN  IF ordered["quality"] \notin QUALITY_VALUES
        THEN Ok(<<[ordered EXCEPT !["quality"] = "secondary"]>>)
        ELSE Ok(<<ordered>>)

\* ensure_schema: the ordered row, or ValueError
ensure_schema(r) ==
    LET ordered == [col \in SchemaColumnSet |-> Get(r, col)]
    IN  IF ordered["quality"] \notin QUALITY_VALUES THEN ValueError
        ELSE Ok(<<ordered>>)

\* RecordBuilder.make: the record is built from the arguments, every schema
\* column is defaulted to None, ensure_schema must pass, the record is returned
make(r) ==
    LET record == [col \in SchemaColumnSet |-> Get(r, col)]
    IN  IF ensure_schema(record).status = "ok" THEN Ok(<<record>>) ELSE ValueError

RECURSIVE sanitize_rows(_)
\* sanitize_rows: notes defaults to "", the first invalid row raises
sanitize_rows(rows) ==
    IF rows = <<>> THEN Ok(<<>>)
    ELSE LET r == Head(rows)
             with_notes == IF "notes" \in DOMAIN r THEN r ELSE r @@ [c \in {"notes"} |-> ""]
             first == ensure_schema(with_notes)
             rest == sanitize_rows(Tail(rows))
         IN  IF first.status = "ok" /\ rest.status = "ok" THEN Ok(first.rows \o rest.rows)
             ELSE ValueError

RECURSIVE load_existing(_)
\* storage._load_existing: [ensure_schema(row) for row in reader]
load_existing(rows) ==
    IF rows = <<>> THEN Ok(<<>>)
    ELSE LET first == ensure_schema(Head(rows))
             rest == load_existing(Tail(rows))
         IN  IF first.status = "ok" /\ rest.status = "ok" THEN Ok(first.rows \o rest.rows)
             ELSE ValueError

\* quality texts the model feeds to the validator; PyNone is an absent column
Qualities == {"primary", "secondary", "final", "preliminary", "invalid", "", PyNone}

BaseRecord ==
    [col \in SchemaColumnSet \ {"quality", "value", "notes"} |->
        CASE col = "ts_kst" -> "2024-01-02 07:30"
          [] col = "asset" -> "TEST"
          [] col = "key" -> "value"
          [] col = "unit" -> "pt"
          [] col = "window" -> "1D"
          [] col = "source" -> "unit"
          [] col = "url" -> "https://example.com"
          [] OTHER -> "0"]

SchemaRecords ==
    { BaseRecord
        @@ (IF q = PyNone THEN <<>> ELSE [c \in {"quality"} |-> q])
        @@ [c \in {"value"} |-> v]
        @@ (IF n THEN [c \in {"notes"} |-> ""] ELSE <<>>)
        : q \in Qualities, v \in {PyNone, "123.4"}, n \in BOOLEAN }

Callers == {"ensure_schema", "RecordBuilder.make", "sanitize_rows", "_load_existing"}

InitSchema ==
    /\ fs = [p \in Paths |-> NoFile]
    /\ pc = "idle"
    /\ phase = "1700"
    /\ frame = NoFrame
    /\ wrote = 0
    /\ row = NoRow
    /\ pre = NoFile
    /\ exitcode = -1
    /\ raised = ""
    /\ runs = 0
    /\ rc = NoCall
    /\ call = NoCall
    /\ \E via \in Callers :
       \E rows \in IF via \in {"ensure_schema", "RecordBuilder.make"}
                   THEN {<<r>> : r \in SchemaRecords}
                   ELSE SeqsUpTo(SchemaRecords, MaxRows) :
         sv = [via |-> via, rows |-> rows, result |-> Ok(<<>>), done |-> FALSE]

Validate ==
    /\ ~sv.done
    /\ sv' = [sv EXCEPT !.done = TRUE,
                        !.result = CASE sv.via = "ensure_schema" -> ensure_schema(sv.rows[1])
                                     [] sv.via = "RecordBuilder.make" -> make(sv.rows[1])
                                     [] sv.via = "sanitize_rows" -> sanitize_rows(sv.rows)
                                     [] OTHER -> load_existing(sv.rows)]
    /\ UNCHANGED <<fs, pc, phase, frame, wrote, row, pre, exitcode, raised, runs, rc, call>>

NextSchema == Validate

SpecSchema == InitSchema /\ [][NextSchema]_vars

-----------------------------------------------------------------------------
(* Properties of the record validator (SpecSchema) *)

\* the quality tiers the record model recognises
RecognisedTiers == {"primary", "secondary", "final", "preliminary"}

\* C10: a call that is handed a record whose quality is not a recognised tier
\* ends in ValueError and returns no record, through every caller.
C10_RejectsUnknownQuality ==
    sv.done =>
        ((\E i \in 1..Len(sv.rows) : Get(sv.rows[i], "quality") \notin RecognisedTiers)
            => /\ sv.result.status = "ValueError"
               /\ sv.result.rows = <<>>)

\* sanitize_rows was handed a valid record followed by one of quality "invalid"
C10_Witness ==
    /\ sv.done
    /\ sv.via = "sanitize_rows"
    /\ Len(sv.rows) = 2
    /\ Get(sv.rows[1], "quality") = "primary"
    /\ Get(sv.rows[2], "quality") = "invalid"
    /\ sv.result.status = "ValueError"

\* C11: a call that is handed only records that carry every schema column and
\* whose quality is one of the four recognised tiers (value null or not) ends
\* without an error and returns one record per record handed in.
C11_AcceptsRecognisedTiers ==
    sv.done =>
        ((\A i \in 1..Len(sv.rows) :
             /\ SchemaColumnSet \subseteq DOMAIN sv.rows[i]
             /\ sv.rows[i]["quality"] \in RecognisedTiers)
            => /\ sv.result.status = "ok"
               /\ Len(sv.result.rows) = Len(sv.rows))

-----------------------------------------------------------------------------
(* src/compute.py: range validation inside compute_records *)

\* offsets around each bound at which the model feeds values (hundredths)
MaxOffset == 1

\* a Python float: NaN or a number of hundredths
NaN == [nan |-> TRUE, v |-> 0]
Float(n) == [nan |-> FALSE, v |-> n]

\* validation_rules: (asset, key) -> (lower, upper) in hundredths, <<>> is None;
\* a metric without a rule gets (None, None)
validation_rules(asset, key) ==
    CASE <<asset, key>> \in {<<"KOSPI", "advance">>, <<"KOSPI", "decline">>,
                             <<"KOSPI", "unchanged">>, <<"KOSPI", "limit_up">>,
                             <<"KOSPI", "limit_down">>, <<"KOSPI", "trading_value">>,
                             <<"KOSDAQ", "advance">>, <<"KOSDAQ", "decline">>,
                             <<"KOSDAQ", "unchanged">>} -> << <<0>>, NoBound >>
      [] <<asset, key>> = <<"KOSPI", "trin">> -> << <<10>>, <<1000>> >>
      [] <<asset, key>> = <<"DXY", "idx">> -> << <<7000>>, <<13000>> >>
      [] <<asset, key>> \in {<<"UST2Y", "yield">>, <<"UST10Y", "yield">>,
                             <<"KR3Y", "yield">>, <<"KR10Y", "yield">>} -> << <<0>>, <<2000>> >>
      [] <<asset, key>> \in {<<"2s10s_US", "spread">>, <<"2s10s_KR", "spread">>}
           -> << <<-30000>>, <<30000>> >>
      [] OTHER -> << NoBound, NoBound >>

\* the metrics that have a rule, and one that has none
RuledMetrics ==
    { <<"KOSPI", "advance">>, <<"KOSPI", "decline">>, <<"KOSPI", "unchanged">>,
      <<"KOSPI", "limit_up">>, <<"KOSPI", "limit_down">>, <<"KOSPI", "trading_value">>,
      <<"KOSPI", "trin">>, <<"KOSDAQ", "advance">>, <<"KOSDAQ", "decline">>,
      <<"KOSDAQ", "unchanged">>, <<"DXY", "idx">>, <<"UST2Y", "yield">>,
      <<"UST10Y", "yield">>, <<"KR3Y", "yield">>, <<"KR10Y", "yield">>,
      <<"2s10s_US", "spread">>, <<"2s10s_KR", "spread">> }

UnruledMetrics == { <<"USD/KRW", "spot">> }

\* variant: a value on a bound is rejected
validate_range_open(value, lower, upper) ==
    IF value.nan THEN TRUE
    ELSE IF lower # NoBound /\ value.v <= lower[1] THEN FALSE
    ELSE IF upper # NoBound /\ value.v >= upper[1] THEN FALSE
    ELSE TRUE

\* _validate_range
validate_range(value, lower, upper) ==
    IF value.nan THEN TRUE
    ELSE IF lower # NoBound /\ value.v < lower[1] THEN FALSE
    ELSE IF upper # NoBound /\ value.v > upper[1] THEN FALSE
    ELSE TRUE

\* Notes are the text split at ";". The tags the collectors and compute write:
NoteTags == {"ok", "fallback:investing", "range_violation", "range_violation:krx,0-10pct"}

\* extra in tag, for the tags above (Python substring test)
TagContains(tag, extra) ==
    \/ tag = extra
    \/ extra = "range_violation" /\ tag = "range_violation:krx,0-10pct"

\* extra in base
NotesContain(base, extra) == \E k \in 1..Len(base) : TagContains(base[k], extra)

\* variant: the new tag replaces the note
append_note_replace(base, extra) == <<extra>>

\* _append_note for a non-empty extra tag
append_note(base, extra) ==
    IF base = <<>> THEN <<extra>>
    ELSE IF NotesContain(base, extra) THEN base
    ELSE base \o <<extra>>

\* utils.clip_numeric: a NaN becomes null, a number is kept
clip_numeric(value) == IF value.nan THEN None ELSE <<value.v>>

\* the place in compute_records that emits the metric
PathOf(asset, key) ==
    CASE key = "yield" -> "yield_record"
      [] key = "spread" -> "add_spread"
      [] key \in {"trin", "trading_value"} -> "inline"
      [] OTHER -> "add_simple"

\* one validated record of compute_records (add_simple, yield_record, add_spread
\* and the inline trin / trading_value blocks): value is the metric's latest
\* value, note_text the note of its slot
emit(asset, key, value, change_abs, note_text) ==
    LET bounds == validation_rules(asset, key)
        ok == validate_range(value, bounds[1], bounds[2])
        path == PathOf(asset, key)
        change == IF path \in {"add_spread"} \/ key = "trin" THEN NaN
                  ELSE IF ~ok /\ path \in {"add_simple", "yield_record"} THEN NaN
                  ELSE change_abs
    IN  [asset |-> asset, key |-> key, window |-> "1D",
         value |-> clip_numeric(IF ok THEN value ELSE NaN),
         change_abs |-> clip_numeric(change),
         notes |-> IF ok THEN note_text ELSE append_note(note_text, "range_violation")]

\* values around the bounds of a metric, and NaN (no data)
ProbeValues(asset, key) ==
    LET bounds == validation_rules(asset, key)
        around(b) == IF b = NoBound THEN {} ELSE {Float(b[1] + o) : o \in (-MaxOffset)..MaxOffset}
    IN  around(bounds[1]) \cup around(bounds[2]) \cup {Float(132050), NaN}

SlotNotes == {<<>>, <<"ok">>, <<"fallback:investing">>, <<"range_violation:krx,0-10pct">>}

InitCompute ==
    /\ fs = [p \in Paths |-> NoFile]
    /\ pc = "idle"
    /\ phase = "1700"
    /\ frame = NoFrame
    /\ wrote = 0
    /\ row = NoRow
    /\ pre = NoFile
    /\ exitcode = -1
    /\ raised = ""
    /\ runs = 0
    /\ rc = NoCall
    /\ sv = NoCall
    /\ \E m \in RuledMetrics \cup UnruledMetrics :
       \E v \in ProbeValues(m[1], m[2]), n \in SlotNotes :
         call = [fn |-> "compute_records", asset |-> m[1], key |-> m[2], value |-> v,
                 change_abs |-> Float(5), note |-> n, out |-> <<>>, done |-> FALSE]

ComputeRecord ==
    /\ call.fn = "compute_records"
    /\ ~call.done
    /\ call' = [call EXCEPT !.out = emit(call.asset, call.key, call.value,
                                          call.change_abs, call.note),
                            !.done = TRUE]
    /\ UNCHANGED <<fs, pc, phase, frame, wrote, row, pre, exitcode, raised, runs, rc, sv>>

NextCompute == ComputeRecord

SpecCompute == InitCompute /\ [][NextCompute]_vars

-----------------------------------------------------------------------------
(* Properties of the range validation (SpecCompute) *)

Below(v, b) == ~v.nan /\ b # NoBound /\ v.v < b[1]
Above(v, b) == ~v.nan /\ b # NoBound /\ v.v > b[1]

\* C12: for a metric with declared bounds, a value below the lower or above the
\* upper bound is emitted as a record with null value whose notes contain
\* range_violation and still hold every tag of the slot's note; a value within
\* the bounds, the bounds included, is emitted unchanged with the slot's note
\* as it was.
C12_RangeValidated ==
    (call.done /\ <<call.asset, call.key>> \in RuledMetrics) =>
        LET bounds == validation_rules(call.asset, call.key)
            outside == Below(call.value, bounds[1]) \/ Above(call.value, bounds[2])
        IN  /\ outside =>
                 /\ call.out.value = None
                 /\ NotesContain(call.out.notes, "range_violation")
                 /\ \A k \in 1..Len(call.note) :
                      \E l \in 1..Len(call.out.notes) : call.out.notes[l] = call.note[k]
            /\ (~call.value.nan /\ ~outside) =>
                 /\ call.out.value = <<call.value.v>>
                 /\ call.out.notes = call.note

\* a value just above the upper bound of a yield whose slot already had a note
C12_Witness ==
    /\ call.done
    /\ call.key = "yield"
    /\ call.value = Float(2001)
    /\ call.note = <<"fallback:investing">>
    /\ call.out.value = None
    /\ call.out.notes = <<"fallback:investing", "range_violation">>

-----------------------------------------------------------------------------
(* src/compute.py check_coverage, src/utils.py coverage_ratio, and the way
   pipeline.main hands the batch to check_coverage *)

\* records in a batch handed to a coverage function
MaxCov == 2
\* records added to the batch for the second coverage call
MaxExtra == 1

\* (asset, key) of the entries "ASSET:key" of REQUIRED_KEYS
REQUIRED_KEYS ==
    { <<"KOSPI", "idx">>, <<"KOSDAQ", "idx">>, <<"KOSPI", "advance">>,
      <<"KOSPI", "decline">>, <<"KOSPI", "unchanged">>, <<"KOSDAQ", "advance">>,
      <<"KOSDAQ", "decline">>, <<"KOSDAQ", "unchanged">>, <<"KOSPI", "trin">>,
      <<"KOSPI", "trading_value">>, <<"KOSPI", "limit_up">>, <<"KOSPI", "limit_down">>,
      <<"K200", "hv30">>, <<"ES", "basis">>, <<"NQ", "basis">>, <<"SOX", "ret_1w">>,
      <<"SOX", "ret_1m">>, <<"USD/KRW", "spot">>, <<"DXY", "idx">>,
      <<"2s10s_US", "spread">>, <<"2s10s_KR", "spread">>, <<"UST2Y", "yield">>,
      <<"UST10Y", "yield">>, <<"KR3Y", "yield">>, <<"KR10Y", "yield">>,
      <<"WTI", "spot">>, <<"Brent", "spot">>, <<"Gold", "spot">>, <<"Copper", "spot">>,
      <<"BTC", "spot">>, <<"BTC", "corr20">> }

\* the (asset, key) pairs mark_eod stamps with window "EOD"
eod_pairs ==
    { <<"KOSPI", "idx">>, <<"KOSDAQ", "idx">>, <<"KOSPI", "advance">>,
      <<"KOSPI", "decline">>, <<"KOSPI", "unchanged">>, <<"KOSDAQ", "advance">>,
      <<"KOSDAQ", "decline">>, <<"KOSDAQ", "unchanged">>, <<"USD/KRW", "spot">>,
      <<"DXY", "idx">>, <<"UST2Y", "yield">>, <<"UST10Y", "yield">>,
      <<"KR3Y", "yield">>, <<"KR10Y", "yield">>, <<"TIPS10Y", "yield">>,
      <<"WTI", "spot">>, <<"Brent", "spot">>, <<"Gold", "spot">>, <<"Copper", "spot">>,
      <<"BTC", "spot">>, <<"KOSPI200", "hv30">> }

\* the value of a record in memory: None, a float, a float NaN, or the text ""
PyNoneV == [t |-> "None", v |-> 0]
PyFloat(n) == [t |-> "float", v |-> n]
PyNaN == [t |-> "nan", v |-> 0]
PyBlank == [t |-> "str", v |-> 0]

\* pd.DataFrame(records) ... .to_dict("records") on the value column: a column
\* that holds a float next to None is a float64 column, in which None is NaN;
\* a column of None only stays an object column
frame_values(records) ==
    LET numeric == \E i \in 1..Len(records) : records[i].value.t \in {"float", "nan"}
    IN  [i \in 1..Len(records) |->
            IF numeric /\ records[i].value.t = "None"
            THEN [records[i] EXCEPT !.value = PyNaN]
            ELSE records[i]]

\* mark_eod(pd.DataFrame(records)).to_dict("records")
mark_eod(records) ==
    LET updated == frame_values(records)
    IN  [i \in 1..Len(updated) |->
            IF <<updated[i].asset, updated[i].key>> \in eod_pairs
            THEN [updated[i] EXCEPT !.window = "EOD"]
            ELSE updated[i]]

\* variant: a pair counts by its last record only
check_coverage_last(records) ==
    LET last(p) == CHOOSE i \in 1..Len(records) :
                      /\ <<records[i].asset, records[i].key>> = p
                      /\ \A j \in 1..Len(records) :
                           <<records[j].asset, records[j].key>> = p => j <= i
        filled == {p \in {<<records[i].asset, records[i].key>> : i \in 1..Len(records)} :
                      records[last(p)].value.t \notin {"None", "str"}}
        n == Cardinality(REQUIRED_KEYS)
    IN  <<Cardinality(filled \cap REQUIRED_KEYS), IF n < 1 THEN 1 ELSE n>>

\* check_coverage: the ratio as <<numerator, denominator>>
check_coverage(records) ==
    LET filled == {<<records[i].asset, records[i].key>> :
                      i \in {i \in 1..Len(records) : records[i].value.t \notin {"None", "str"}}}
        n == Cardinality(REQUIRED_KEYS)
    IN  <<Cardinality(filled \cap REQUIRED_KEYS), IF n < 1 THEN 1 ELSE n>>

\* utils.coverage_ratio: the ratio as <<numerator, denominator>>; 1.0 is <<1, 1>>
coverage_ratio(records, required) ==
    LET available == {<<records[i].asset, records[i].key>> :
                         i \in {i \in 1..Len(records) : records[i].value.t # "None"}}
    IN  IF required = {} THEN <<1, 1>>
        ELSE <<Cardinality(required \cap available), Cardinality(required)>>

\* records as compute_records leaves them: a value is a float or None
CoverageRecords ==
    { [asset |-> "KOSPI", key |-> "idx", window |-> "1D", value |-> PyFloat(250000),
       notes |-> <<>>],
      [asset |-> "KOSPI", key |-> "idx", window |-> "1D", value |-> PyNoneV,
       notes |-> <<>>],
      [asset |-> "UST2Y", key |-> "yield", window |-> "1D", value |-> PyFloat(426),
       notes |-> <<>>],
      [asset |-> "UST2Y", key |-> "yield", window |-> "1D", value |-> PyNoneV,
       notes |-> <<"range_violation">>],
      [asset |-> "WTI", key |-> "spot", window |-> "1D", value |-> PyFloat(7810),
       notes |-> <<>>],
      [asset |-> "TIPS10Y", key |-> "yield", window |-> "1D", value |-> PyFloat(198),
       notes |-> <<>>] }

\* required sets handed to utils.coverage_ratio
RequiredSets ==
    { {}, {<<"KOSPI", "idx">>, <<"UST2Y", "yield">>}, REQUIRED_KEYS }

\* how the batch reaches the coverage function
CoverageCalls ==
    { [fn |-> "check_coverage", phase |-> ph, required |-> REQUIRED_KEYS] : ph \in Phases }
    \cup { [fn |-> "coverage_ratio", phase |-> "", required |-> r] : r \in RequiredSets }

\* pipeline.main lines 174-179 for check_coverage; a direct call for coverage_ratio
coverage_of(c, records) ==
    IF c.fn = "coverage_ratio" THEN coverage_ratio(records, c.required)
    ELSE IF c.phase \in {"1700", "EOD"} THEN check_coverage(mark_eod(records))
    ELSE check_coverage(records)

InitCoverage ==
    /\ fs = [p \in Paths |-> NoFile]
    /\ pc = "idle"
    /\ phase = "1700"
    /\ frame = NoFrame
    /\ wrote = 0
    /\ row = NoRow
    /\ pre = NoFile
    /\ exitcode = -1
    /\ raised = ""
    /\ runs = 0
    /\ rc = NoCall
    /\ sv = NoCall
    /\ \E c \in CoverageCalls :
       \E records \in SeqsUpTo(CoverageRecords, MaxCov),
          extra \in SeqsUpTo(CoverageRecords, MaxExtra) :
         call = [fn |-> c.fn, phase |-> c.phase, required |-> c.required,
                 records |-> records, extra |-> extra,
                 out |-> <<0, 1>>, out_more |-> <<0, 1>>, step |-> 0]

\* the coverage of the batch
Coverage ==
    /\ call.fn \in {"check_coverage", "coverage_ratio"}
    /\ call.step = 0
    /\ call' = [call EXCEPT !.out = coverage_of(call, call.records), !.step = 1]
    /\ UNCHANGED <<fs, pc, phase, frame, wrote, row, pre, exitcode, raised, runs, rc, sv>>

\* the coverage of the batch with further records appended
CoverageMore ==
    /\ call.fn \in {"check_coverage", "coverage_ratio"}
    /\ call.step = 1
    /\ call' = [call EXCEPT !.out_more = coverage_of(call, call.records \o call.extra),
                            !.step = 2]
    /\ UNCHANGED <<fs, pc, phase, frame, wrote, row, pre, exitcode, raised, runs, rc, sv>>

NextCoverage ==
    \/ Coverage
    \/ CoverageMore

SpecCoverage == InitCoverage /\ [][NextCoverage]_vars

-----------------------------------------------------------------------------
(* Properties of the coverage ratio (SpecCoverage) *)

\* required pairs for which the batch holds a record with a non-null value
CoveredPairs(records, required) ==
    {p \in required : \E i \in 1..Len(records) :
        /\ <<records[i].asset, records[i].key>> = p
        /\ records[i].value.t # "None"}

\* C13: the coverage ratio is the number of required pairs that have a record
\* with a non-null value in the batch over the number of required pairs, and
\* lies in [0, 1]; a pair whose records all have a null value is not counted.
C13_CoverageCountsNonNull ==
    (call.step >= 1 /\ call.required # {}) =>
        /\ call.out[1] = Cardinality(CoveredPairs(call.records, call.required))
        /\ call.out[2] = Cardinality(call.required)
        /\ 0 <= call.out[1] /\ call.out[1] <= call.out[2]

\* C14: the coverage of the batch with further records appended is not below
\* the coverage of the batch, for the same required set.
C14_CoverageMonotonic ==
    call.step = 2 =>
        call.out[1] * call.out_more[2] <= call.out_more[1] * call.out[2]

\* the appended record covers a required pair that the batch only held with a
\* null value, and the ratio went up
C14_Witness ==
    /\ call.step = 2
    /\ call.extra # <<>>
    /\ \E i \in 1..Len(call.records) :
         /\ call.records[i].value.t = "None"
         /\ <<call.records[i].asset, call.records[i].key>>
              = <<call.extra[1].asset, call.extra[1].key>>
    /\ call.out[1] * call.out_more[2] < call.out_more[1] * call.out[2]

-----------------------------------------------------------------------------
(* update_history.py: upsert_from_latest as a function of latest.csv, the
   ledger rows and the run time (up to the call of _atomic_write) *)

\* records per latest.csv handed to the snapshot builder
MaxSnap == 2

SnapDay == <<2024, 2, 1>>
OtherDay == <<2024, 12, 1>>

\* latest.csv rows as the pipeline persists them: every record carries a
\* producer id and a quality of QUALITY_VALUES
SnapshotRecords ==
    { [ts |-> <<SnapDay, 930>>, asset |-> "KOSPI", key |-> "idx", value |-> NumV(255000),
       window |-> "EOD", source |-> <<"krx">>, quality |-> "final"],
      [ts |-> <<SnapDay, 930>>, asset |-> "KOSPI", key |-> "idx", value |-> NumV(254000),
       window |-> "EOD", source |-> <<"naver">>, quality |-> "primary"],
      [ts |-> <<SnapDay, 900>>, asset |-> "KOSPI", key |-> "idx", value |-> NumV(253000),
       window |-> "EOD", source |-> <<"krx">>, quality |-> "final"],
      [ts |-> <<SnapDay, 930>>, asset |-> "USD/KRW", key |-> "spot", value |-> NumV(132050),
       window |-> "EOD", source |-> <<"bok">>, quality |-> "secondary"],
      [ts |-> <<SnapDay, 960>>, asset |-> "USD/KRW", key |-> "spot", value |-> NumV(131000),
       window |-> "", source |-> <<"bok">>, quality |-> "secondary"],
      [ts |-> <<SnapDay, 930>>, asset |-> "UST2Y", key |-> "yield", value |-> NumV(1500),
       window |-> "EOD", source |-> <<"FRED">>, quality |-> "final"],
      [ts |-> <<SnapDay, 930>>, asset |-> "UST10Y", key |-> "yield", value |-> TextV,
       window |-> "EOD", source |-> <<"fred">>, quality |-> "final"],
      [ts |-> <<SnapDay, 630>>, asset |-> "DXY", key |-> "idx", value |-> NumV(10400),
       window |-> "1D", source |-> <<"FRED">>, quality |-> "final"],
      [ts |-> <<OtherDay, 930>>, asset |-> "KOSDAQ", key |-> "idx", value |-> NumV(85000),
       window |-> "EOD", source |-> <<"KRX">>, quality |-> "final"] }

SnapshotLatest ==
    {NoFile, File(UndatedBatch)} \cup {File(b) : b \in SeqsUpTo(SnapshotRecords, MaxSnap)}

\* the ledger before the upsert: absent, or one placeholder row
SnapshotHistories ==
    {NoFile} \cup {File(<<build_empty_history_row(d).row>>) : d \in {SnapDay, OtherDay}}

\* the orders in which the same records can stand in latest.csv
Perms(n) == {p \in [1..n -> 1..n] : \A i, j \in 1..n : p[i] = p[j] => i = j}

Permute(f, p) == [i \in 1..Len(f) |-> f[p[i]]]

NoReport == [returned |-> "", target |-> <<>>, row |-> NoRow, field_status |-> <<>>,
             chosen |-> <<>>, ledger |-> <<>>]

\* upsert_from_latest, lines 369-407: the report, the row and the frame that
\* goes to _atomic_write. chosen is the record the debug log names per column.
upsert_report(latest, history, now, tie) ==
    LET latest_frame == load_latest(latest)
        target == IF latest_frame = <<>> THEN <<now>> ELSE choose_target_date(latest_frame)
    IN  IF target = <<>>
        THEN [NoReport EXCEPT !.returned = "no_target"]
        ELSE LET built == IF latest_frame = <<>> THEN build_empty_history_row(target[1])
                          ELSE build_history_row(latest_frame, target[1], tie)
             IN  [returned |-> "upserted",
                  target |-> target,
                  row |-> built.row,
                  field_status |-> built.field_status,
                  chosen |-> IF latest_frame = <<>> THEN <<>>
                             ELSE [c \in ValueColumns |->
                                     select_latest_record(latest_frame, MappingOf(c)[1],
                                                          MappingOf(c)[2], target[1], tie)],
                  ledger |-> upsert_frame(load_history(history), built.row)]

InitSnapshot ==
    /\ fs = [p \in Paths |-> NoFile]
    /\ pc = "idle"
    /\ phase = "1700"
    /\ frame = NoFrame
    /\ wrote = 0
    /\ row = NoRow
    /\ pre = NoFile
    /\ exitcode = -1
    /\ raised = ""
    /\ runs = 0
    /\ rc = NoCall
    /\ sv = NoCall
    /\ \E latest \in SnapshotLatest, history \in SnapshotHistories :
       \E now \in IF load_latest(latest) = <<>> THEN {SnapDay, OtherDay} ELSE {SnapDay} :
       \E tie \in Ties(load_latest(latest)) :
       \E p \in Perms(Len(latest.rows)) :
         call = [fn |-> "upsert_from_latest", latest |-> latest, history |-> history,
                 now |-> now, tie |-> tie, perm |-> p,
                 out |-> NoReport, out_perm |-> NoReport, step |-> 0]

\* upsert_from_latest on latest.csv
Snapshot ==
    /\ call.fn = "upsert_from_latest"
    /\ call.step = 0
    /\ call' = [call EXCEPT !.out = upsert_report(call.latest, call.history, call.now, call.tie),
                            !.step = 1]
    /\ UNCHANGED <<fs, pc, phase, frame, wrote, row, pre, exitcode, raised, runs, rc, sv>>

\* upsert_from_latest on a latest.csv that holds the same records in another
\* order. sort_values sees the same column of ts_kst keys whenever the
\* reordered records have equal ts_kst, so it leaves the same position last.
SnapshotReordered ==
    /\ call.fn = "upsert_from_latest"
    /\ call.step = 1
    /\ call' = [call EXCEPT !.out_perm =
                                upsert_report([call.latest EXCEPT !.rows = Permute(@, call.perm)],
                                              call.history, call.now, call.tie),
                            !.step = 2]
    /\ UNCHANGED <<fs, pc, phase, frame, wrote, row, pre, exitcode, raised, runs, rc, sv>>

NextSnapshot ==
    \/ Snapshot
    \/ SnapshotReordered

SpecSnapshot == InitSnapshot /\ [][NextSnapshot]_vars

-----------------------------------------------------------------------------
(* Properties of the snapshot builder (SpecSnapshot) *)

\* a row was built from a non-empty batch
Built == call.step >= 1 /\ call.out.returned = "upserted" /\ load_latest(call.latest) # <<>>

Batch == call.latest.rows

\* records of the batch for a column's (asset, key) at the target date
ForKey(c) ==
    {i \in 1..Len(Batch) : /\ Batch[i].asset = MappingOf(c)[1]
                           /\ Batch[i].key = MappingOf(c)[2]
                           /\ Batch[i].ts # NaT
                           /\ Batch[i].ts[1] = call.out.target[1]}

EodOf(c) == {i \in ForKey(c) : Batch[i].window = "EOD"}

\* the most recent records of a set
Latest(S) == {i \in S : \A j \in S : Batch[j].ts[2] <= Batch[i].ts[2]}

Populated(c) == call.out.field_status[c] \in {"ok_eod", "ok_any"}

\* the record that contributed the value of a populated column
Contributor(c) == Batch[call.out.chosen[c]]

\* a value below the column's minimum or above its maximum
OutOfBounds(c, v) ==
    \/ VALUE_VALIDATORS(c)[1] # NoBound /\ v < VALUE_VALIDATORS(c)[1][1]
    \/ VALUE_VALIDATORS(c)[2] # NoBound /\ v > VALUE_VALIDATORS(c)[2][1]

Usable(r, c) == r.value[1] = "num" /\ ~OutOfBounds(c, r.value[2])

\* C15: per mapped column, the record used is a most recent EOD record of the
\* target date when the key has an EOD record there (a populated column then
\* has status ok_eod), otherwise a most recent record of that date of any
\* window (status ok_any); with no record of the key at the target date the
\* column is blank with status missing.
C15_EodPreferred ==
    Built =>
        \A c \in ValueColumns :
            /\ ForKey(c) = {} =>
                 /\ call.out.row[c] = Blank
                 /\ call.out.field_status[c] = "missing"
            /\ EodOf(c) # {} =>
                 /\ call.out.chosen[c] \in Latest(EodOf(c))
                 /\ call.out.field_status[c] # "ok_any"
                 /\ Usable(Contributor(c), c) =>
                      /\ call.out.field_status[c] = "ok_eod"
                      /\ call.out.row[c] = <<Contributor(c).value[2]>>
            /\ (ForKey(c) # {} /\ EodOf(c) = {}) =>
                 /\ call.out.chosen[c] \in Latest(ForKey(c))
                 /\ call.out.field_status[c] # "ok_eod"
                 /\ Usable(Contributor(c), c) =>
                      /\ call.out.field_status[c] = "ok_any"
                      /\ call.out.row[c] = <<Contributor(c).value[2]>>

\* USD/KRW has an EOD record and a later record of another window: the EOD
\* value is taken; DXY has no EOD record and is taken from its 1D record
C15_Witness ==
    /\ call.step >= 1
    /\ Len(call.latest.rows) = 2
    /\ \E i, j \in 1..2 :
         /\ call.latest.rows[i].asset = "USD/KRW" /\ call.latest.rows[i].window = "EOD"
         /\ call.latest.rows[j].asset = "USD/KRW" /\ call.latest.rows[j].window = ""
    /\ call.out.field_status["usdkrw"] = "ok_eod"
    /\ call.out.row["usdkrw"] = <<132050>>
    /\ call.out.field_status["kospi"] = "missing"

\* C16: for an empty batch the upsert leaves exactly one ledger row for the run
\* date at 15:30:00, every value column of it is blank, and the diagnostic
\* status of every column is "missing".
C16_EmptyBatchRow ==
    (call.step >= 1 /\ load_latest(call.latest) = <<>>) =>
        /\ call.out.returned = "upserted"
        /\ Cardinality({i \in 1..Len(call.out.ledger) :
                          call.out.ledger[i]["time_kst"] = TimeKst(call.now)}) = 1
        /\ \A i \in 1..Len(call.out.ledger) :
             call.out.ledger[i]["time_kst"] = TimeKst(call.now) =>
                \A c \in ColumnSet \ {"time_kst"} : call.out.ledger[i][c] = Blank
        /\ \A c \in DOMAIN call.out.field_status : call.out.field_status[c] = "missing"

\* C17: a chosen record whose value is not a number, or is outside the
\* column's bounds, leaves its column blank with status non_numeric or
\* range_violation; src_tag and quality come from the other columns' records
\* only, every column whose chosen record is usable is populated, and the row
\* goes into the ledger.
C17_RejectedValueSkipped ==
    Built =>
        /\ \A c \in ValueColumns : call.out.chosen[c] # 0 =>
             /\ Contributor(c).value[1] # "num" =>
                  /\ call.out.row[c] = Blank
                  /\ call.out.field_status[c] = "non_numeric"
             /\ (Contributor(c).value[1] = "num" /\ OutOfBounds(c, Contributor(c).value[2])) =>
                  /\ call.out.row[c] = Blank
                  /\ call.out.field_status[c] = "range_violation"
             /\ Usable(Contributor(c), c) => call.out.row[c] # Blank
        /\ \A k \in 1..Len(call.out.row["src_tag"]) :
             \E c \in ValueColumns :
                /\ call.out.chosen[c] # 0 /\ Usable(Contributor(c), c)
                /\ Lower(Contributor(c).source[1]) = call.out.row["src_tag"][k]
        /\ (\A c \in ValueColumns : call.out.chosen[c] # 0 /\ Usable(Contributor(c), c)
                                       => Contributor(c).quality = "final")
             => call.out.row["quality"] # <<"secondary">>
        /\ \E i \in 1..Len(call.out.ledger) : call.out.ledger[i] = call.out.row

\* an out-of-range UST2Y record of producer FRED next to a usable KOSPI record:
\* ust2y is blank, kospi is populated, and the row names krx only
C17_Witness ==
    /\ Built
    /\ call.out.field_status["ust2y"] = "range_violation"
    /\ call.out.row["ust2y"] = Blank
    /\ call.out.row["kospi"] = <<255000>>
    /\ call.out.row["src_tag"] = <<"krx">>
    /\ call.out.row["quality"] = <<"final">>

\* the lower-cased producer ids of the records that contributed a value
ContributingIds(report, batch) ==
    {Lower(batch[report.chosen[c]].source[1]) :
        c \in {c \in ValueColumns : report.field_status[c] \in {"ok_eod", "ok_any"}}}

TagSet(report) == {report.row["src_tag"][k] : k \in 1..Len(report.row["src_tag"])}

\* C18: src_tag lists each producer id of the records that contributed a value
\* exactly once and nothing else, and the same records in another order give
\* the same src_tag.
C18_SrcTagOrderFree ==
    /\ Built =>
         /\ TagSet(call.out) = ContributingIds(call.out, Batch)
         /\ \A k, l \in 1..Len(call.out.row["src_tag"]) :
              call.out.row["src_tag"][k] = call.out.row["src_tag"][l] => k = l
    /\ (call.step = 2 /\ call.out.returned = "upserted") =>
         call.out_perm.row["src_tag"] = call.out.row["src_tag"]

\* the part of C18 that does not speak of the order of the batch
C18_SrcTagIsContributors ==
    Built =>
        /\ TagSet(call.out) = ContributingIds(call.out, Batch)
        /\ \A k, l \in 1..Len(call.out.row["src_tag"]) :
             call.out.row["src_tag"][k] = call.out.row["src_tag"][l] => k = l

ContributingQualities ==
    {Contributor(c).quality : c \in {c \in ValueColumns : Populated(c)}}

\* C19: the row's quality is final exactly when some record contributed a
\* value and every contributing record is final, secondary when some
\* contributing record is not final, and blank when no record contributed.
C19_RowQuality ==
    Built =>
        /\ call.out.row["quality"] = <<"final">>
             <=> (ContributingQualities # {} /\ \A q \in ContributingQualities : q = "final")
        /\ (\E q \in ContributingQualities : q # "final")
             => call.out.row["quality"] = <<"secondary">>
        /\ ContributingQualities = {} => call.out.row["quality"] = Blank

\* a final and a secondary record both contributed
C19_Witness ==
    /\ Built
    /\ call.out.row["kospi"] = <<255000>>
    /\ call.out.row["usdkrw"] # Blank
    /\ ContributingQualities = {"final", "secondary"}
    /\ call.out.row["quality"] = <<"secondary">>

\* float(cell): the number a populated cell reads back as
ReadBack(cell) == cell[1]

-----------------------------------------------------------------------------
(* pipeline.py main, phase 1700: the records of compute_records are stamped
   by mark_eod, persisted as latest.csv and read by upsert_from_latest *)

\* records per batch handed from the pipeline to the snapshot builder
MaxHand == 2

\* (asset, key) of records compute_records emits with window "1D": the pairs
\* mark_eod knows, and two it does not know
HandoffPairs == eod_pairs \cup {<<"K200", "hv30">>, <<"BTC", "corr20">>}

\* a value inside every bound of the column the pair could go to
HandoffValue(p) == IF p[2] = "yield" THEN 425 ELSE 10000

\* the run's ts_kst is the 17:00 start of the batch
HandoffRecords ==
    { [ts |-> <<SnapDay, 1020>>, asset |-> p[1], key |-> p[2],
       value |-> NumV(HandoffValue(p)), window |-> "1D", source |-> <<"krx">>,
       quality |-> "final"] : p \in HandoffPairs }

\* mark_eod, lines 64-66, on the rows that go to latest.csv
stamp_eod(rows) ==
    [i \in 1..Len(rows) |->
        IF <<rows[i].asset, rows[i].key>> \in eod_pairs
        THEN [rows[i] EXCEPT !.window = "EOD"]
        ELSE rows[i]]

InitHandoff ==
    /\ fs = [p \in Paths |-> NoFile]
    /\ pc = "idle"
    /\ phase = "1700"
    /\ frame = NoFrame
    /\ wrote = 0
    /\ row = NoRow
    /\ pre = NoFile
    /\ exitcode = -1
    /\ raised = ""
    /\ runs = 0
    /\ rc = NoCall
    /\ sv = NoCall
    /\ \E records \in SeqsUpTo(HandoffRecords, MaxHand) :
       \E tie \in Ties(records) :
         call = [fn |-> "handoff", records |-> records, marked |-> <<>>, tie |-> tie,
                 out |-> NoReport, step |-> 0]

\* main, lines 175-177 and 182
MarkEod ==
    /\ call.fn = "handoff"
    /\ call.step = 0
    /\ call' = [call EXCEPT !.marked = stamp_eod(call.records), !.step = 1]
    /\ UNCHANGED <<fs, pc, phase, frame, wrote, row, pre, exitcode, raised, runs, rc, sv>>

\* main, lines 199-203
HandoffUpsert ==
    /\ call.fn = "handoff"
    /\ call.step = 1
    /\ call' = [call EXCEPT !.out = upsert_report(File(call.marked), NoFile, SnapDay, call.tie),
                            !.step = 2]
    /\ UNCHANGED <<fs, pc, phase, frame, wrote, row, pre, exitcode, raised, runs, rc, sv>>

NextHandoff ==
    \/ MarkEod
    \/ HandoffUpsert

SpecHandoff == InitHandoff /\ [][NextHandoff]_vars

-----------------------------------------------------------------------------
(* Properties of the hand-off to the snapshot builder (SpecHandoff) *)

\* C21: every record the pipeline stamps EOD for the history, the key "spot"
\* records of WTI, Brent, Gold, Copper and BTC among them, has a history
\* column to which the snapshot builder writes its value with status ok_eod.
C21_FlaggedPairsMapped ==
    (call.fn = "handoff" /\ call.step = 2) =>
        \A i \in 1..Len(call.marked) :
            call.marked[i].window = "EOD" =>
                \E m \in LATEST_TO_HISTORY :
                    /\ m[1] = call.marked[i].asset
                    /\ m[2] = call.marked[i].key
                    /\ call.out.field_status[m[3]] = "ok_eod"
                    /\ call.out.row[m[3]] = <<call.marked[i].value[2]>>

-----------------------------------------------------------------------------
(* pipeline.py: the exit code of one run of main() together with the
   coverage of the run's batch *)

\* slots of the batch that can be without a value
MaxMissing == 7

RECURSIVE SeqOf(_)
\* the elements of a set in some fixed order
SeqOf(S) == IF S = {} THEN <<>>
            ELSE LET x == CHOOSE x \in S : TRUE IN <<x>> \o SeqOf(S \ {x})

\* compute_records emits one record per slot; k of them have value None
RunBatch(k) ==
    LET slots == SeqOf(REQUIRED_KEYS)
    IN  [i \in 1..Len(slots) |->
            [asset |-> slots[i][1], key |-> slots[i][2], window |-> "1D",
             value |-> IF i <= k THEN PyNoneV ELSE PyFloat(10000), notes |-> <<>>]]

\* every collector failed, or at most MaxMissing slots are without a value
RunBatches == {RunBatch(k) : k \in (0..MaxMissing) \cup {Cardinality(REQUIRED_KEYS)}}

\* main, line 186: coverage < 0.8 on the ratio <<numerator, denominator>>
below_threshold(coverage) == coverage[1] * 10 < coverage[2] * 8

InitExit ==
    /\ fs = [p \in Paths |-> NoFile]
    /\ pc = "idle"
    /\ phase = "1700"
    /\ frame = NoFrame
    /\ wrote = 0
    /\ row = NoRow
    /\ pre = NoFile
    /\ exitcode = -1
    /\ raised = ""
    /\ runs = 0
    /\ rc = NoCall
    /\ sv = NoCall
    /\ \E records \in RunBatches :
         call = [fn |-> "main", records |-> records, coverage |-> <<0, 1>>,
                 warned |-> FALSE, step |-> 0]

\* main(): the one run of the process
ExitStart ==
    /\ call.fn = "main"
    /\ pc = "idle"
    /\ pc' = "collect"
    /\ \E ph \in Phases : phase' = ph
    /\ pre' = Ledger
    /\ runs' = runs + 1
    /\ UNCHANGED <<fs, frame, wrote, row, exitcode, raised, rc, sv, call>>

\* lines 179-187: check_coverage on the batch (stamped in phase 1700), and the
\* warning entry of the log; the run goes on either way
ExitCoverage ==
    /\ call.fn = "main"
    /\ pc = "coverage"
    /\ LET coverage == IF phase \in {"1700", "EOD"} THEN check_coverage(mark_eod(call.records))
                       ELSE check_coverage(call.records)
       IN  call' = [call EXCEPT !.coverage = coverage,
                                !.warned = below_threshold(coverage),
                                !.step = 1]
    /\ pc' = "write_tables"
    /\ UNCHANGED <<fs, phase, frame, wrote, row, pre, exitcode, raised, runs, rc, sv>>

\* the other statements before the upsert
ExitStep ==
    /\ call.fn = "main"
    /\ pc # "coverage"
    /\ StepOk

NextExit ==
    \/ ExitStart
    \/ ExitCoverage
    \/ ExitStep
    \/ Raise
    \/ UpsertBuild
    \/ ToCsvOpen
    \/ ToCsvRow
    \/ ToCsvClose
    \/ Move
    \/ Verify

SpecExit == InitExit /\ [][NextExit]_vars

-----------------------------------------------------------------------------
(* Properties of the exit code (SpecExit) *)

\* C22: a run whose coverage ratio is below the threshold 0.8 never exits
\* with 0: it exits with a non-zero code of its own, an unhandled error gives
\* the generic failure code, and 0 means success.
C22_LowCoverageNonZero ==
    (call.fn = "main" /\ pc = "done" /\ call.step = 1 /\ below_threshold(call.coverage))
        => exitcode # 0

-----------------------------------------------------------------------------
(* pipeline.py collect_raw and the collectors it calls, followed by
   compute_records on what was collected *)

\* collector sources that fail in one run
MaxFail == 2

\* the collectors in the order collect_raw calls them
Collectors == <<"kis", "breadth", "kr_rates", "us_yields", "dxy", "commod_crypto">>

\* what can fail: per collector, an asset whose sources all fail; for the
\* breadth collector its two sources, the board and the widget
FailPoints ==
    { <<"kis", "KOSPI">>, <<"kis", "KOSDAQ">>, <<"kis", "USD/KRW">>,
      <<"breadth", "board">>, <<"breadth", "widget">>,
      <<"kr_rates", "KR3Y">>, <<"kr_rates", "KR10Y">>,
      <<"us_yields", "UST2Y">>, <<"us_yields", "UST10Y">>,
      <<"dxy", "DXY">>,
      <<"commod_crypto", "WTI">>, <<"commod_crypto", "Brent">>, <<"commod_crypto", "Gold">>,
      <<"commod_crypto", "Copper">>, <<"commod_crypto", "BTC">> }

\* the keys the breadth collector reports per market
BreadthKeys ==
    {"advance", "decline", "unchanged", "limit_up", "limit_down", "trading_value", "trin"}

\* the (asset, key) slots of compute_records that a collector's asset feeds
SlotsOf(collector, asset) ==
    CASE collector = "kis" /\ asset = "USD/KRW" -> {<<asset, "spot">>}
      [] collector = "kis" -> {<<asset, "idx">>}
      [] collector = "breadth" /\ asset = "KOSPI" -> {<<asset, k>> : k \in BreadthKeys}
      [] collector = "breadth" -> {<<asset, k>> : k \in {"advance", "decline", "unchanged"}}
      [] collector \in {"kr_rates", "us_yields"} -> {<<asset, "yield">>}
      [] collector = "dxy" -> {<<asset, "idx">>}
      [] OTHER -> {<<asset, "spot">>}

\* the assets a collector is asked for
AssetsOf(collector) ==
    IF collector = "breadth" THEN {"KOSPI", "KOSDAQ"}
    ELSE {p[2] : p \in {p \in FailPoints : p[1] = collector}}

CollectSlots ==
    UNION {UNION {SlotsOf(Collectors[i], a) : a \in AssetsOf(Collectors[i])} :
              i \in 1..Len(Collectors)}

\* the raw field a slot's value is read from (_series_from_raw)
FieldOf(slot) ==
    CASE slot[2] = "idx" /\ slot[1] = "DXY" -> "idx"
      [] slot[2] \in {"idx", "spot"} -> "close"
      [] OTHER -> slot[2]

\* every source of the collector's asset failed
AllFailed(failed, collector, asset) ==
    IF collector = "breadth" THEN {<<"breadth", "board">>, <<"breadth", "widget">>} \subseteq failed
    ELSE <<collector, asset>> \in failed

\* what one collector hands to collect_raw: the (asset, field) series that
\* hold data and the notes entries <<slot, tag>>; the tag "parse_failed"
\* stands for the text parse_failed:<source>,<reason>
collector_result(failed, collector) ==
    LET assets == AssetsOf(collector)
        down == {a \in assets : AllFailed(failed, collector, a)}
        slots(S) == UNION {SlotsOf(collector, a) : a \in S}
        data(S) == {<<s[1], FieldOf(s)>> : s \in S}
        tagged(S, tag) == {<<s, tag>> : s \in S}
    IN  CASE collector = "kis" ->
               \* get_index_series / get_fx_series: an empty frame, no note
               [frames |-> data(slots(assets \ down)), notes |-> {}]
          [] collector = "breadth" /\ <<"breadth", "board">> \notin failed ->
               \* _aggregate_market registers every field but trin
               [frames |-> data({s \in slots(assets) : s[2] # "trin"}),
                notes |-> tagged(slots(assets), "ok")]
          [] collector = "breadth" /\ <<"breadth", "widget">> \notin failed ->
               [frames |-> data({s \in slots(assets) :
                                    s[2] \in {"advance", "decline", "unchanged"}}),
                notes |-> tagged({s \in slots(assets) :
                                     s[2] \in {"advance", "decline", "unchanged"}},
                                 "fallback:widget")
                          \cup tagged({s \in slots(assets) :
                                          s[2] \notin {"advance", "decline", "unchanged"}},
                                      "parse_failed")]
          [] collector = "breadth" ->
               [frames |-> {}, notes |-> tagged(slots(assets), "parse_failed")]
          [] collector = "commod_crypto" ->
               \* FetchResult.note is empty when a source answered
               [frames |-> data(slots(assets \ down)),
                notes |-> tagged(slots(down), "parse_failed")]
          [] OTHER ->
               [frames |-> data(slots(assets \ down)),
                notes |-> tagged(slots(assets \ down), "ok")
                          \cup tagged(slots(down), "parse_failed")]

\* notes_map.get("ASSET:key", "")
note(notes, slot) ==
    IF \E n \in notes : n[1] = slot THEN <<(CHOOSE n \in notes : n[1] = slot)[2]>> ELSE <<>>

\* _latest of the series of a slot; trin is computed from four series, of
\* which advance_volume and decline_volume are in no collector's frame
latest_of(frames, slot) ==
    IF slot[2] = "trin" THEN
        IF {<<slot[1], f>> : f \in {"advance", "decline", "advance_volume", "decline_volume"}}
              \subseteq frames
        THEN Float(100) ELSE NaN
    ELSE IF <<slot[1], FieldOf(slot)>> \in frames THEN Float(HandoffValue(slot))
    ELSE NaN

\* the records of compute_records for the slots above
compute_records(frames, notes) ==
    {emit(s[1], s[2], latest_of(frames, s), NaN, note(notes, s)) : s \in CollectSlots}

InitCollect ==
    /\ fs = [p \in Paths |-> NoFile]
    /\ pc = "idle"
    /\ phase = "1700"
    /\ frame = NoFrame
    /\ wrote = 0
    /\ row = NoRow
    /\ pre = NoFile
    /\ exitcode = -1
    /\ raised = ""
    /\ runs = 0
    /\ rc = NoCall
    /\ sv = NoCall
    /\ \E failed \in {F \in SUBSET FailPoints : Cardinality(F) <= MaxFail} :
         call = [fn |-> "collect_raw", failed |-> failed, at |-> 1, frames |-> {},
                 notes |-> {}, records |-> {}, step |-> 0]

\* collect_raw: the next collector is called and its frames and notes are
\* merged into raw_frames and failure_notes
Collect ==
    /\ call.fn = "collect_raw"
    /\ call.step = 0
    /\ call.at <= Len(Collectors)
    /\ LET result == collector_result(call.failed, Collectors[call.at])
       IN  call' = [call EXCEPT !.frames = @ \cup result.frames,
                                !.notes = {n \in @ : \A m \in result.notes : m[1] # n[1]}
                                          \cup result.notes,
                                !.at = @ + 1]
    /\ UNCHANGED <<fs, pc, phase, frame, wrote, row, pre, exitcode, raised, runs, rc, sv>>

\* main, line 172: compute_records on what collect_raw returned
ComputeCollected ==
    /\ call.fn = "collect_raw"
    /\ call.step = 0
    /\ call.at > Len(Collectors)
    /\ call' = [call EXCEPT !.records = compute_records(call.frames, call.notes), !.step = 1]
    /\ UNCHANGED <<fs, pc, phase, frame, wrote, row, pre, exitcode, raised, runs, rc, sv>>

NextCollect ==
    \/ Collect
    \/ ComputeCollected

SpecCollect == InitCollect /\ [][NextCollect]_vars

-----------------------------------------------------------------------------
(* Properties of collection (SpecCollect) *)

\* the slots of the assets whose sources all failed in this run
FailedSlots ==
    UNION {UNION {SlotsOf(Collectors[i], a) :
                     a \in {a \in AssetsOf(Collectors[i]) :
                               AllFailed(call.failed, Collectors[i], a)}} :
              i \in 1..Len(Collectors)}

\* C23: when every source of an asset fails, collection still runs to its
\* end, the asset has no frame with data, each of its slots has a notes entry
\* parse_failed:<source>,<reason>, and compute_records emits a record for the
\* slot with a null value that carries the note.
C23_FailureBecomesNote ==
    (call.fn = "collect_raw" /\ call.step = 1) =>
        \A s \in FailedSlots :
            /\ <<s[1], FieldOf(s)>> \notin call.frames
            /\ <<s, "parse_failed">> \in call.notes
            /\ \E r \in call.records :
                 /\ r.asset = s[1] /\ r.key = s[2]
                 /\ r.value = None
                 /\ NotesContain(r.notes, "parse_failed")

-----------------------------------------------------------------------------
(* The three places that compute a basis: compute.compute_basis,
   utils.basis and the basis step inside compute_records *)

\* prices handed to the basis functions are whole numbers in -MaxPrice..MaxPrice
MaxPrice == 4

\* outcome of a call: an exception, None, a float (ten-thousandths), inf or NaN
Raised(exc) == [kind |-> "raise", v |-> 0, exc |-> exc]
Returned(kind, v) == [kind |-> kind, v |-> v, exc |-> ""]

\* a / b - 1 in ten-thousandths, rounded towards zero
Ratio(a, b) ==
    LET q == (Abs(a) * 10000) \div Abs(b)
    IN  (IF (a < 0) = (b < 0) THEN q ELSE -q) - 10000

\* compute.compute_basis
compute_basis(future, spot) ==
    IF spot = 0 THEN Raised("ValueError")
    ELSE Returned("float", Ratio(future, spot))

\* utils.basis; spot is a number or None (<<>>)
basis(futures, spot) ==
    IF spot = <<>> \/ spot[1] = 0 THEN Returned("None", 0)
    ELSE Returned("float", Ratio(futures, spot[1]))

\* compute_records.basis on the last values of the two series (<<>> is an
\* empty series); the values are numpy floats, whose division by zero gives
\* inf or NaN with a warning instead of an exception
records_basis(fut, spot) ==
    IF fut = <<>> \/ spot = <<>> THEN Returned("nan", 0)
    ELSE IF spot[1] = 0
    THEN IF fut[1] = 0 THEN Returned("nan", 0)
         ELSE IF fut[1] > 0 THEN Returned("inf", 1) ELSE Returned("inf", -1)
    ELSE Returned("float", Ratio(fut[1], spot[1]))

Prices == (-MaxPrice)..MaxPrice

BasisPlaces == {"compute_basis", "utils.basis", "compute_records.basis"}

InitBasis ==
    /\ fs = [p \in Paths |-> NoFile]
    /\ pc = "idle"
    /\ phase = "1700"
    /\ frame = NoFrame
    /\ wrote = 0
    /\ row = NoRow
    /\ pre = NoFile
    /\ exitcode = -1
    /\ raised = ""
    /\ runs = 0
    /\ rc = NoCall
    /\ sv = NoCall
    /\ \E place \in BasisPlaces, future \in Prices, spot \in Prices :
         call = [fn |-> place, future |-> future, spot |-> spot,
                 out |-> Returned("", 0), step |-> 0]

ComputeBasis ==
    /\ call.fn = "compute_basis"
    /\ call.step = 0
    /\ call' = [call EXCEPT !.out = compute_basis(call.future, call.spot), !.step = 1]
    /\ UNCHANGED <<fs, pc, phase, frame, wrote, row, pre, exitcode, raised, runs, rc, sv>>

UtilsBasis ==
    /\ call.fn = "utils.basis"
    /\ call.step = 0
    /\ call' = [call EXCEPT !.out = basis(call.future, <<call.spot>>), !.step = 1]
    /\ UNCHANGED <<fs, pc, phase, frame, wrote, row, pre, exitcode, raised, runs, rc, sv>>

RecordsBasis ==
    /\ call.fn = "compute_records.basis"
    /\ call.step = 0
    /\ call' = [call EXCEPT !.out = records_basis(<<call.future>>, <<call.spot>>), !.step = 1]
    /\ UNCHANGED <<fs, pc, phase, frame, wrote, row, pre, exitcode, raised, runs, rc, sv>>

NextBasis ==
    \/ ComputeBasis
    \/ UtilsBasis
    \/ RecordsBasis

SpecBasis == InitBasis /\ [][NextBasis]_vars

-----------------------------------------------------------------------------
(* Properties of the basis (SpecBasis) *)

\* C24: wherever the basis is computed, a spot price of zero raises an error
\* the caller sees; no number and no null comes back.
C24_ZeroSpotRaises ==
    (call.fn \in BasisPlaces /\ call.step = 1 /\ call.spot = 0) => call.out.kind = "raise"

-----------------------------------------------------------------------------
(* The three places that compute the breadth ratio (TRIN): the trin block of
   compute_records, kis/breadth.trin and KRXBreadthCollector._aggregate_market *)

\* the four inputs are whole numbers in -MaxCount..MaxCount, or missing (NaN)
MaxCount == 2

TrinInputs == {NaN} \cup {Float(n) : n \in (-MaxCount)..MaxCount}

\* (adv_cnt / dec_cnt) / (adv_val / dec_val) in hundredths, rounded towards
\* zero, for non-zero dec_cnt, adv_val and dec_val
TrinRatio(adv_cnt, dec_cnt, adv_val, dec_val) ==
    LET n == adv_cnt * dec_val
        d == dec_cnt * adv_val
        q == (Abs(n) * 100) \div Abs(d)
    IN  IF (n < 0) = (d < 0) THEN q ELSE -q

\* compute_records, lines 407-426: the value of the emitted KOSPI trin record
records_trin(adv_cnt, dec_cnt, adv_val, dec_val) ==
    LET inputs == {adv_cnt, dec_cnt, adv_val, dec_val}
        trin_value == IF \A v \in inputs : ~v.nan /\ v.v # 0
                      THEN Float(TrinRatio(adv_cnt.v, dec_cnt.v, adv_val.v, dec_val.v))
                      ELSE NaN
        record == emit("KOSPI", "trin", trin_value, NaN, <<>>)
    IN  IF record.value = None THEN Returned("None", 0)
        ELSE Returned("float", record.value[1])

\* kis/breadth.trin on Python floats
trin(adv_cnt, dec_cnt, adv_val, dec_val) ==
    IF (~dec_cnt.nan /\ dec_cnt.v = 0) \/ (~dec_val.nan /\ dec_val.v = 0)
    THEN Returned("nan", 0)
    ELSE IF ~adv_val.nan /\ adv_val.v = 0 /\ ~dec_val.nan THEN Raised("ZeroDivisionError")
    ELSE IF \E v \in {adv_cnt, dec_cnt, adv_val, dec_val} : v.nan THEN Returned("nan", 0)
    ELSE Returned("float", TrinRatio(adv_cnt.v, dec_cnt.v, adv_val.v, dec_val.v))

\* _aggregate_market, lines 266-279: trin_value
aggregate_trin(advance, decline, adv_volume, dec_volume) ==
    IF \A v \in {advance, decline, adv_volume, dec_volume} : ~v.nan /\ v.v > 0
    THEN LET trin_value == TrinRatio(advance.v, decline.v, adv_volume.v, dec_volume.v)
         IN  IF 10 <= trin_value /\ trin_value <= 1000 THEN Returned("float", trin_value)
             ELSE Returned("nan", 0)
    ELSE Returned("nan", 0)

TrinPlaces == {"compute_records.trin", "kis.breadth.trin", "_aggregate_market"}

InitTrin ==
    /\ fs = [p \in Paths |-> NoFile]
    /\ pc = "idle"
    /\ phase = "1700"
    /\ frame = NoFrame
    /\ wrote = 0
    /\ row = NoRow
    /\ pre = NoFile
    /\ exitcode = -1
    /\ raised = ""
    /\ runs = 0
    /\ rc = NoCall
    /\ sv = NoCall
    /\ \E place \in TrinPlaces, args \in [1..4 -> TrinInputs] :
         call = [fn |-> place, args |-> args, out |-> Returned("", 0), step |-> 0]

RecordsTrin ==
    /\ call.fn = "compute_records.trin"
    /\ call.step = 0
    /\ call' = [call EXCEPT !.out = records_trin(call.args[1], call.args[2],
                                                 call.args[3], call.args[4]),
                            !.step = 1]
    /\ UNCHANGED <<fs, pc, phase, frame, wrote, row, pre, exitcode, raised, runs, rc, sv>>

KisTrin ==
    /\ call.fn = "kis.breadth.trin"
    /\ call.step = 0
    /\ call' = [call EXCEPT !.out = trin(call.args[1], call.args[2], call.args[3], call.args[4]),
                            !.step = 1]
    /\ UNCHANGED <<fs, pc, phase, frame, wrote, row, pre, exitcode, raised, runs, rc, sv>>

AggregateTrin ==
    /\ call.fn = "_aggregate_market"
    /\ call.step = 0
    /\ call' = [call EXCEPT !.out = aggregate_trin(call.args[1], call.args[2],
                                                   call.args[3], call.args[4]),
                            !.step = 1]
    /\ UNCHANGED <<fs, pc, phase, frame, wrote, row, pre, exitcode, raised, runs, rc, sv>>

NextTrin ==
    \/ RecordsTrin
    \/ KisTrin
    \/ AggregateTrin

SpecTrin == InitTrin /\ [][NextTrin]_vars

-----------------------------------------------------------------------------
(* Properties of the breadth ratio (SpecTrin) *)

\* the four inputs are all present and strictly positive
AllPositive == \A i \in 1..4 : ~call.args[i].nan /\ call.args[i].v > 0

\* C25: the breadth ratio is null unless advance count, decline count,
\* advance volume and decline volume are all strictly positive; the emitted
\* KOSPI trin record has a null value when one of them is zero, negative or
\* missing.
C25_TrinNullUnlessPositive ==
    (call.fn \in TrinPlaces /\ call.step = 1 /\ ~AllPositive) => call.out.kind \in {"nan", "None"}

\* the tiers from lowest to highest confidence
QualityRank(q) ==
    CASE q = "final" -> 3
      [] q = "primary" -> 2
      [] q = "secondary" -> 1
      [] OTHER -> 0

\* the records the selection is made from: the EOD records of the key at the
\* target date, or all its records there when it has no EOD record
Candidates(c) == IF EodOf(c) # {} THEN EodOf(c) ELSE ForKey(c)

\* C26: among the candidates of a key the snapshot builder takes a record of
\* the highest quality tier, and among those of that tier the latest one.
C26_BestTierThenLatest ==
    Built =>
        \A c \in ValueColumns :
            call.out.chosen[c] # 0 =>
                \A j \in Candidates(c) :
                    LET i == call.out.chosen[c]
                    IN  /\ QualityRank(Batch[j].quality) <= QualityRank(Batch[i].quality)
                        /\ (Batch[j].quality = Batch[i].quality
                               => Batch[j].ts[2] <= Batch[i].ts[2])

-----------------------------------------------------------------------------
(* src/storage.py: write_rows and the daily table of one business date *)

\* rows per call of write_rows
MaxStore == 2
\* calls of write_rows
MaxCalls == 2

RETENTION_DAYS == 180

\* ts_kst texts "YYYY-MM-DD HH:MM" (utils.TS_FORMAT) of the business date
StorageTimes == {<<7, 30>>, <<15, 30>>}

StorageTs(t) == DateStr(SnapDay) \o <<32>> \o TsStr(t[1], t[2])

\* the slots (asset, key, window) in the order of the final sort
StorageSlots == << <<"KOSPI", "idx", "1D">>, <<"KOSPI", "idx", "EOD">> >>

\* rows handed to write_rows; the last one has a quality ensure_schema rejects
StorageRows ==
    { [col \in SchemaColumnSet |->
          CASE col = "ts_kst" -> StorageTs(t)
            [] col = "asset" -> StorageSlots[s][1]
            [] col = "key" -> StorageSlots[s][2]
            [] col = "window" -> StorageSlots[s][3]
            [] col = "value" -> v
            [] col = "quality" -> "final"
            [] col \in {"change_abs", "change_pct"} -> PyNone
            [] OTHER -> ""] : s \in 1..Len(StorageSlots), t \in StorageTimes, v \in {"1", "2"} }
    \cup { [col \in SchemaColumnSet |->
              CASE col = "ts_kst" -> StorageTs(<<15, 30>>)
                [] col = "asset" -> "KOSPI"
                [] col = "key" -> "idx"
                [] col = "window" -> "1D"
                [] col = "value" -> "1"
                [] col = "quality" -> "invalid"
                [] OTHER -> ""] }

\* (row.get("asset", ""), row.get("key", ""), row.get("window", ""))
merge_key(r) == <<r["asset"], r["key"], r["window"]>>

\* variant: a row only replaces a stored row with a smaller ts_kst
replaces_strict(current, r) == StrLess(current["ts_kst"], r["ts_kst"])

\* str(current.get("ts_kst")) <= str(row.get("ts_kst"))
replaces(current, r) == StrLeq(current["ts_kst"], r["ts_kst"])

RECURSIVE combined(_, _, _)
\* the loop of _merge_rows over the first n rows: index of combined[key], 0
\* when the key is not in the dict
combined(rows, n, key) ==
    IF n = 0 THEN 0
    ELSE LET current == combined(rows, n - 1, key)
         IN  IF merge_key(rows[n]) # key THEN current
             ELSE IF current = 0 \/ replaces(rows[current], rows[n]) THEN n
             ELSE current

RECURSIVE merged_from(_, _)
\* combined.values() in the order of merged.sort: one row per key
merged_from(rows, k) ==
    IF k > Len(StorageSlots) THEN <<>>
    ELSE LET i == combined(rows, Len(rows), StorageSlots[k])
         IN  (IF i = 0 THEN <<>> ELSE <<rows[i]>>) \o merged_from(rows, k + 1)

\* _merge_rows
merge_rows(existing, new_rows) == merged_from(existing \o new_rows, 1)

\* _write_csv followed by csv.DictReader: every cell comes back as text, a
\* None cell as ""
write_csv(rows) ==
    File([i \in 1..Len(rows) |->
            [col \in SchemaColumnSet |->
                IF col # "ts_kst" /\ rows[i][col] = PyNone THEN "" ELSE rows[i][col]]])

\* _retention_cleanup on the sorted names of the daily files
retention_cleanup(files) ==
    IF Len(files) <= RETENTION_DAYS THEN files
    ELSE SubSeq(files, Len(files) - RETENTION_DAYS + 1, Len(files))

\* write_rows: the daily file, latest.csv and the daily directory after the
\* call; raised is the exception that ended it
write_rows(daily, latest, files, rows) ==
    LET sanitized == sanitize_rows(rows)
        existing == load_existing(IF daily.exists THEN daily.rows ELSE <<>>)
    IN  IF sanitized.status # "ok"
        THEN [daily |-> daily, latest |-> latest, files |-> files, raised |-> "ValueError"]
        ELSE IF sanitized.rows = <<>>
        THEN [daily |-> daily, latest |-> latest, files |-> files, raised |-> ""]
        ELSE IF existing.status # "ok"
        THEN [daily |-> daily, latest |-> latest, files |-> files, raised |-> "ValueError"]
        ELSE LET merged == merge_rows(existing.rows, sanitized.rows)
             IN  [daily |-> write_csv(merged), latest |-> write_csv(merged),
                  files |-> retention_cleanup(IF daily.exists THEN files
                                              ELSE files \o <<DateStr(SnapDay)>>),
                  raised |-> ""]

\* minutes since midnight of a ts_kst text of the business date
MinutesOf(ts_kst) ==
    LET t == CHOOSE t \in StorageTimes : StorageTs(t) = ts_kst IN t[1] * 60 + t[2]

\* what a row says: its slot, its time and its value
Says(r) == <<merge_key(r), r["ts_kst"], r["value"]>>

RECURSIVE live_after(_, _, _)
\* the row that is live for a slot after the first n rows of a batch were
\* written on top of the live row before (<<>> when there is none): a row
\* takes over unless it is older than the live one
live_after(before, rows, n) ==
    IF n = 0 THEN before
    ELSE LET current == live_after(before, rows, n - 1)
         IN  IF current = <<>> \/ MinutesOf(current[2]) <= MinutesOf(rows[n]["ts_kst"])
             THEN Says(rows[n])
             ELSE current

\* the rows of a batch for one slot, in the order of the batch
ForSlot(rows, slot) == SelectSeq(rows, LAMBDA r : merge_key(r) = slot)

InitStorage ==
    /\ fs = [p \in Paths |-> NoFile]
    /\ pc = "idle"
    /\ phase = "1700"
    /\ frame = NoFrame
    /\ wrote = 0
    /\ row = NoRow
    /\ pre = NoFile
    /\ exitcode = -1
    /\ raised = ""
    /\ runs = 0
    /\ rc = NoCall
    /\ sv = NoCall
    /\ call = [fn |-> "write_rows", daily |-> NoFile, latest |-> NoFile, files |-> <<>>,
               live |-> [k \in 1..Len(StorageSlots) |-> <<>>], calls |-> 0,
               stale |-> FALSE, tied |-> FALSE, error |-> ""]

\* one call of write_rows. live keeps, per slot, what the rows written so far
\* make the live row; stale and tied say whether the call offered a slot an
\* older row, or one of equal ts_kst, than the daily table held
WriteRows ==
    /\ call.fn = "write_rows"
    /\ call.calls < MaxCalls
    /\ \E rows \in SeqsUpTo(StorageRows, MaxStore) :
         LET out == write_rows(call.daily, call.latest, call.files, rows)
             done == out.raised = "" /\ rows # <<>>
             held(k) == call.live[k]
             offered(k) == ForSlot(rows, StorageSlots[k])
         IN  call' = [call EXCEPT
                        !.daily = out.daily,
                        !.latest = out.latest,
                        !.files = out.files,
                        !.error = out.raised,
                        !.calls = @ + 1,
                        !.live = IF done
                                 THEN [k \in 1..Len(StorageSlots) |->
                                         live_after(held(k), offered(k), Len(offered(k)))]
                                 ELSE @,
                        !.stale = done /\ \E k \in 1..Len(StorageSlots) :
                                     /\ held(k) # <<>>
                                     /\ \E i \in 1..Len(offered(k)) :
                                          MinutesOf(offered(k)[i]["ts_kst"]) < MinutesOf(held(k)[2]),
                        !.tied = done /\ \E k \in 1..Len(StorageSlots) :
                                     /\ held(k) # <<>>
                                     /\ Len(offered(k)) = 1
                                     /\ offered(k)[1]["ts_kst"] = held(k)[2]
                                     /\ offered(k)[1]["value"] # held(k)[3]]
    /\ UNCHANGED <<fs, pc, phase, frame, wrote, row, pre, exitcode, raised, runs, rc, sv>>

NextStorage == WriteRows

SpecStorage == InitStorage /\ [][NextStorage]_vars

-----------------------------------------------------------------------------
(* Properties of the daily table (SpecStorage) *)

\* the rows of the daily table
Daily == IF call.daily.exists THEN call.daily.rows ELSE <<>>

\* C27: after any sequence of write_rows calls for one business date the
\* daily table holds exactly one row per slot written so far: the row with
\* the greatest ts_kst written for the slot, the later written one of two
\* with equal ts_kst; an older row written later does not replace it.
C27_OneLiveRowPerSlot ==
    call.fn = "write_rows" =>
        /\ \A i, j \in 1..Len(Daily) : merge_key(Daily[i]) = merge_key(Daily[j]) => i = j
        /\ \A k \in 1..Len(StorageSlots) :
             IF call.live[k] = <<>>
             THEN \A i \in 1..Len(Daily) : merge_key(Daily[i]) # StorageSlots[k]
             ELSE \E i \in 1..Len(Daily) : Says(Daily[i]) = call.live[k]

\* the last call offered one slot an older row than the table held and the
\* other slot a different row of equal ts_kst, and both slots are in the table
C27_Witness ==
    /\ call.fn = "write_rows"
    /\ call.calls = MaxCalls
    /\ call.stale
    /\ call.tied
    /\ Len(Daily) = Len(StorageSlots)
    /\ \E i \in 1..Len(Daily) : Daily[i]["ts_kst"] = StorageTs(<<15, 30>>)

-----------------------------------------------------------------------------
(* The rows of other dates across an upsert (SpecLedger) *)

\* the rows whose time_kst differs from the key of the row just built
OtherDates(rows) == SelectSeq(rows, LAMBDA r : r["time_kst"] # row["time_kst"])

\* C28: an upsert for date D leaves every ledger row of another date unchanged
\* in all columns, and it adds or removes no row but the one for D: the rows
\* of other dates are those of before the run, and the table is those rows
\* plus one row for D.
C28_OtherDatesUntouched ==
    Upserted =>
        /\ OtherDates(LedgerRows) = OtherDates(pre.rows)
        /\ Len(LedgerRows) = Len(OtherDates(pre.rows)) + 1

\* an upsert into a ledger that held a populated row of another date
C28_Witness ==
    /\ Upserted
    /\ \E i \in 1..Len(pre.rows) :
         /\ pre.rows[i]["time_kst"] # row["time_kst"]
         /\ \E c \in ValueColumns : pre.rows[i][c] # Blank
    /\ \E c \in ValueColumns : row[c] # Blank

-----------------------------------------------------------------------------
(* A metric through both validation stages: compute_records, then the
   snapshot builder of update_history.py *)

\* the metrics that have a rule in compute_records and a ledger column
TwoStageMetrics ==
    {m \in LATEST_TO_HISTORY : validation_rules(m[1], m[2]) # << NoBound, NoBound >>}

\* values around the bounds of both stages, one between the two upper bounds
\* of the yields, and NaN (no data)
TwoStageValues(m) ==
    LET around(b) == IF b = NoBound THEN {} ELSE {Float(b[1] + o) : o \in (-MaxOffset)..MaxOffset}
    IN  around(validation_rules(m[1], m[2])[1]) \cup around(validation_rules(m[1], m[2])[2])
        \cup around(VALUE_VALIDATORS(m[3])[1]) \cup around(VALUE_VALIDATORS(m[3])[2])
        \cup {Float(1500), NaN}

\* the latest.csv row of a computed record: a null value is an empty cell
latest_row(rec) ==
    [ts |-> <<SnapDay, 1020>>, asset |-> rec.asset, key |-> rec.key,
     value |-> IF rec.value = None THEN NanV ELSE NumV(rec.value[1]),
     window |-> rec.window, source |-> <<"krx">>, quality |-> "final"]

InitTwoStage ==
    /\ fs = [p \in Paths |-> NoFile]
    /\ pc = "idle"
    /\ phase = "1700"
    /\ frame = NoFrame
    /\ wrote = 0
    /\ row = NoRow
    /\ pre = NoFile
    /\ exitcode = -1
    /\ raised = ""
    /\ runs = 0
    /\ rc = NoCall
    /\ sv = NoCall
    /\ \E m \in TwoStageMetrics : \E v \in TwoStageValues(m) :
         call = [fn |-> "two_stage", metric |-> m, value |-> v, rec |-> <<>>,
                 outcome |-> <<>>, step |-> "compute"]

\* compute_records validates the metric's latest value and emits its record
ComputeStage ==
    /\ call.fn = "two_stage"
    /\ call.step = "compute"
    /\ call' = [call EXCEPT !.rec = emit(call.metric[1], call.metric[2], call.value,
                                          Float(5), <<>>),
                            !.step = "snapshot"]
    /\ UNCHANGED <<fs, pc, phase, frame, wrote, row, pre, exitcode, raised, runs, rc, sv>>

\* _build_history_row reads the record from latest.csv and fills the column
SnapshotStage ==
    /\ call.fn = "two_stage"
    /\ call.step = "snapshot"
    /\ call' = [call EXCEPT !.outcome = column_outcome(<<latest_row(call.rec)>>, call.metric,
                                                       SnapDay, "last"),
                            !.step = "done"]
    /\ UNCHANGED <<fs, pc, phase, frame, wrote, row, pre, exitcode, raised, runs, rc, sv>>

NextTwoStage == ComputeStage \/ SnapshotStage

SpecTwoStage == InitTwoStage /\ [][NextTwoStage]_vars

-----------------------------------------------------------------------------
(* Properties of the two validation stages (SpecTwoStage) *)

\* the range validator of compute_records accepted the value
ComputeAccepted ==
    /\ ~call.value.nan
    /\ validate_range(call.value, validation_rules(call.metric[1], call.metric[2])[1],
                      validation_rules(call.metric[1], call.metric[2])[2])

\* C29: a value the range validator of compute_records accepts for a metric
\* is never rejected as range_violation by the snapshot builder for the
\* metric's ledger column.
C29_BoundsAgree ==
    (call.fn = "two_stage" /\ call.step = "done" /\ ComputeAccepted)
        => call.outcome.status # "range_violation"

-----------------------------------------------------------------------------
(* src/sources/krx_breadth.py: determine_target *)

\* days are counted from Monday 2024-01-01 (day 0); the run days are the
\* week of 2024-01-08
RunDays == 7..13

\* Seconds from midnight of a wall-clock time
dtime(hour, minute) == hour * 3600 + minute * 60

DaySeconds == 86400

\* utcoffset of Asia/Seoul
KST == 32400

\* date.weekday(): Monday is 0
weekday(target) == target % 7

\* the wall-clock times at which determine_target changes its answer
Boundaries == {dtime(7, 0), dtime(8, 0), dtime(15, 30), dtime(16, 50), dtime(17, 30)}

\* run times: KST wall-clock seconds around the boundaries, and the ends of the day
RunSeconds ==
    {b + o : b \in Boundaries, o \in (-MaxOffset)..MaxOffset} \cup {0, DaySeconds - 1}

\* aware datetimes handed to determine_target: datetime.now(KST) of the
\* pipeline, and the same instants in UTC
RunTimes ==
    {[day |-> d, sec |-> s, utcoffset |-> KST] : d \in RunDays, s \in RunSeconds}
    \cup {[day |-> d + (s - KST + DaySeconds) \div DaySeconds - 1,
           sec |-> (s - KST + DaySeconds) % DaySeconds,
           utcoffset |-> 0] : d \in RunDays, s \in RunSeconds}

\* now.astimezone(KST)
astimezone(now, tz) ==
    LET s == now.sec - now.utcoffset + tz + DaySeconds
    IN  [day |-> now.day + s \div DaySeconds - 1, sec |-> s % DaySeconds, utcoffset |-> tz]

\* _is_business_day
is_business_day(target) == weekday(target) < 5

RECURSIVE back_to_business_day(_)
\* the while loop of _previous_business_day
back_to_business_day(current) ==
    IF is_business_day(current) THEN current ELSE back_to_business_day(current - 1)

\* _previous_business_day
previous_business_day(target) == back_to_business_day(target - 1)

\* determine_target
determine_target(now) ==
    LET now_kst == astimezone(now, KST)
        current_date == now_kst.day
        current_time == now_kst.sec
        morning_start == dtime(7, 0)
        morning_end == dtime(8, 0)
        evening_start == dtime(16, 50)
        evening_end == dtime(17, 30)
    IN  IF morning_start <= current_time /\ current_time < morning_end
        THEN [target |-> previous_business_day(current_date), should_wait |-> FALSE]
        ELSE IF evening_start <= current_time /\ current_time <= evening_end
        THEN IF is_business_day(current_date)
             THEN [target |-> current_date, should_wait |-> TRUE]
             ELSE [target |-> previous_business_day(current_date), should_wait |-> FALSE]
        ELSE [target |-> IF current_time < dtime(15, 30)
                         THEN previous_business_day(current_date)
                         ELSE current_date,
              should_wait |-> FALSE]

InitTarget ==
    /\ fs = [p \in Paths |-> NoFile]
    /\ pc = "idle"
    /\ phase = "1700"
    /\ frame = NoFrame
    /\ wrote = 0
    /\ row = NoRow
    /\ pre = NoFile
    /\ exitcode = -1
    /\ raised = ""
    /\ runs = 0
    /\ rc = NoCall
    /\ sv = NoCall
    /\ \E now \in RunTimes, skip \in {"0", "1"} :
         call = [fn |-> "determine_target", now |-> now, SKIP_KRX_WAIT |-> skip,
                 target |-> -1, should_wait |-> FALSE, wait_enabled |-> FALSE,
                 step |-> "start"]

\* target_date, should_wait = determine_target(now)
DetermineTarget ==
    /\ call.fn = "determine_target"
    /\ call.step = "start"
    /\ call' = [call EXCEPT !.target = determine_target(call.now).target,
                            !.should_wait = determine_target(call.now).should_wait,
                            !.step = "determined"]
    /\ UNCHANGED <<fs, pc, phase, frame, wrote, row, pre, exitcode, raised, runs, rc, sv>>

\* KRXBreadthCollector.collect: wait_enabled
CollectWait ==
    /\ call.fn = "determine_target"
    /\ call.step = "determined"
    /\ call' = [call EXCEPT !.wait_enabled = call.should_wait /\ call.SKIP_KRX_WAIT # "1",
                            !.step = "collecting"]
    /\ UNCHANGED <<fs, pc, phase, frame, wrote, row, pre, exitcode, raised, runs, rc, sv>>

NextTarget == DetermineTarget \/ CollectWait

SpecTarget == InitTarget /\ [][NextTarget]_vars

-----------------------------------------------------------------------------
(* Properties of determine_target (SpecTarget) *)

\* the run time on the KST wall clock
RunKst == astimezone(call.now, KST)

\* C30: for every run time determine_target returns a Monday-to-Friday day as
\* the target, and should_wait is true only for a run between 16:50 and 17:30
\* KST on a business day, and then the target is the run date itself.
C30_TargetIsBusinessDay ==
    (call.fn = "determine_target" /\ call.step # "start") =>
        /\ weekday(call.target) < 5
        /\ call.should_wait =>
             /\ dtime(16, 50) <= RunKst.sec /\ RunKst.sec <= dtime(17, 30)
             /\ weekday(RunKst.day) < 5
             /\ call.target = RunKst.day

=============================================================================
